---- MODULE Spec2Model ----
(***************************************************************************)
(* Model of the configuration-synthesis engine of cline_autoupdate:        *)
(*   src/src/adaptive_settings.py  AdaptiveSettings (layers + deep merge)  *)
(*   src/src/rules_generator.py    RulesGenerator (dedup of rule texts)    *)
(*                                                                         *)
(* Python objects live in a heap: a dict or a list is an object with an    *)
(* identity, a variable holds a reference to it, and an in-place change    *)
(* (d[k] = v, d.update(..)) is seen through every reference.  Structural   *)
(* equality (Python's ==) is equality of the trees Deref yields.           *)
(***************************************************************************)
EXTENDS Integers, Sequences, FiniteSets, TLC

VARIABLES
    heap,       \* the object store: heap[i] is <<"dict", items>> or <<"list", elems>>
    pc,         \* position of the caller
    base,       \* _merge_settings: reference to the first argument
    update,     \* _merge_settings: reference to the second argument
    result,     \* _merge_settings: reference to the returned dict
    before,     \* the trees of base, update (and of the previous result) at call time
    changes,    \* number of in-place changes made to the returned tree so far
    self,       \* the AdaptiveSettings instance: references to its three catalogs
    current_config,     \* the caller's ConfigSnapshot
    perf_snapshot,      \* the caller's PerformanceSnapshot
    returned_config,    \* what the last generate_adaptive_config returned
    layers,     \* the six layers of the last call, in the order they were folded
    previous,   \* the tree the call before the last returned
    calls,      \* number of calls of generate_adaptive_config on this instance
    rules,          \* the list handed to _remove_duplicates
    unique_rules,   \* the list the last _remove_duplicates returned
    first_unique,   \* the list the first _remove_duplicates returned
    rules_config,       \* generate_improved_rules: the config_data argument
    rules_performance,  \* generate_improved_rules: the performance_data argument
    candidates,         \* selected_rules once every source has been gathered (line 145)
    deduplicated,       \* selected_rules after _remove_duplicates (line 148)
    selected_rules,     \* selected_rules after _prioritize_rules (line 151)
    rules_content,      \* the document generate_improved_rules returned
    raised,             \* the exception generate_improved_rules ended with, or "none"
    wf_config,          \* optimize_workflows: the config_data argument
    wf_performance,     \* optimize_workflows: the performance_data argument of the last run
    optimized_workflows,    \* what the last optimize_workflows returned
    optimizations,      \* number of runs of optimize_workflows so far
    run_files,          \* run: .clinerules, settings.json and .cline/workflows as found
    run_workspace,      \* run: what the walk over the workspace finds
    run_config,         \* run: current_config, once the analysis has returned
    run_exception,      \* run: the exception the last step ended with, or "none"
    run_written,        \* run: the targets apply_improvements has written
    exit_status,        \* run: "none" while running, "0" after the return, "1" after sys.exit(1)
    threads,            \* concurrent callers: each caller's call, position and locals
    clock,              \* concurrent callers: the last reading of datetime.now()
    interpreters,       \* start-up: the interpreters started so far, outermost first
    regenerations,      \* successive runs: how often .clinerules has been read back
    settings_file       \* settings.json between two runs

mergeVars == <<base, update, result, before, changes>>
adaptiveVars == <<self, current_config, perf_snapshot, returned_config, layers,
                  previous, calls>>
rulesVars == <<rules, unique_rules, first_unique>>
generateVars == <<rules_config, rules_performance, candidates, deduplicated,
                  selected_rules, rules_content, raised>>
earlierVars == <<mergeVars, adaptiveVars, rulesVars>>
workflowVars == <<wf_config, wf_performance, optimized_workflows, optimizations>>
runVars == <<run_files, run_workspace, run_config, run_exception, run_written, exit_status>>
concurrentVars == <<threads, clock>>
bootVars == <<interpreters>>
regenerateVars == <<regenerations>>
roundTripVars == <<settings_file>>
furtherVars == <<concurrentVars, bootVars, regenerateVars, roundTripVars>>
laterVars == <<generateVars, workflowVars, runVars, furtherVars>>
vars == <<heap, pc, mergeVars, adaptiveVars, rulesVars, laterVars>>

\* the variables of a scenario that is not the one running
MergeIdle ==
    /\ base = <<"none">> /\ update = <<"none">> /\ result = <<"none">>
    /\ before = <<"none">> /\ changes = 0
AdaptiveIdle ==
    /\ self = <<"none">> /\ current_config = <<"none">> /\ perf_snapshot = <<"none">>
    /\ returned_config = <<"none">> /\ layers = <<>> /\ previous = <<"none">>
    /\ calls = 0
RulesIdle ==
    /\ rules = <<>> /\ unique_rules = <<>> /\ first_unique = <<>>
GenerateIdle ==
    /\ candidates = <<>> /\ deduplicated = <<>> /\ selected_rules = <<>>
    /\ rules_content = <<>> /\ raised = "none"
GenerateUnused == rules_config = <<>> /\ rules_performance = <<>> /\ GenerateIdle
EarlierIdle == MergeIdle /\ AdaptiveIdle /\ RulesIdle
WorkflowsUnused ==
    /\ wf_config = <<>> /\ wf_performance = <<>> /\ optimized_workflows = <<>>
    /\ optimizations = 0
RunUnused ==
    /\ run_files = <<>> /\ run_workspace = <<>> /\ run_config = <<>>
    /\ run_exception = "none" /\ run_written = {} /\ exit_status = "none"
ConcurrentUnused == threads = <<>> /\ clock = "none"
BootUnused == interpreters = <<>>
RegenerateUnused == regenerations = 0
RoundTripUnused == settings_file = <<>>
FurtherUnused == ConcurrentUnused /\ BootUnused /\ RegenerateUnused /\ RoundTripUnused
LaterIdle == GenerateUnused /\ WorkflowsUnused /\ RunUnused /\ FurtherUnused

(***************************************************************************)
(* Values.  A scalar carries its Python type; True/False, ints, floats     *)
(* (in hundredths) and strings are immutable.  A reference names a heap    *)
(* object.                                                                 *)
(***************************************************************************)
B(b) == <<"bool", b>>
I(n) == <<"int", n>>
F(n) == <<"float", n>>
S(s) == <<"str", s>>
Ref(a) == <<"ref", a>>
D(f) == <<"dict", f>>
L(s) == <<"list", s>>
EmptyItems == [k \in {} |-> I(0)]
NoRef == <<"none">>

IsRef(v) == v[1] = "ref"
IsDictTree(t) == t[1] = "dict"
IsListTree(t) == t[1] = "list"
\* isinstance(v, dict) / isinstance(v, list) for a value v held in heap h
IsDict(h, v) == IsRef(v) /\ h[v[2]][1] = "dict"
IsList(h, v) == IsRef(v) /\ h[v[2]][1] = "list"
Items(h, v) == h[v[2]][2]

Alloc(h, obj) == [h |-> Append(h, obj), v |-> Ref(Len(h) + 1)]
\* d[k] = v on the dict object d
SetItem(h, d, k, v) == [h EXCEPT ![d[2]] = D((k :> v) @@ @[2])]
\* del d[k]
DelItem(h, d, k) == [h EXCEPT ![d[2]] = D([x \in (DOMAIN @[2]) \ {k} |-> @[2][x]])]
\* l.append(v) on the list object l
ListAppend(h, l, v) == [h EXCEPT ![l[2]] = L(Append(@[2], v))]

\* the structure a value denotes (what == compares)
RECURSIVE Deref(_, _)
Deref(h, v) ==
    IF IsDict(h, v)
    THEN D([k \in DOMAIN Items(h, v) |-> Deref(h, Items(h, v)[k])])
    ELSE IF IsList(h, v)
    THEN L([i \in 1..Len(Items(h, v)) |-> Deref(h, Items(h, v)[i])])
    ELSE v

\* the objects reachable from a value
RECURSIVE Reach(_, _)
Reach(h, v) ==
    IF IsDict(h, v)
    THEN {v[2]} \cup UNION {Reach(h, Items(h, v)[k]) : k \in DOMAIN Items(h, v)}
    ELSE IF IsList(h, v)
    THEN {v[2]} \cup UNION {Reach(h, Items(h, v)[i]) : i \in 1..Len(Items(h, v))}
    ELSE {}

\* evaluation of a literal: every dict and list of the tree becomes a new object.
\* A loop is an operator over its loop state: the heap h, what is iterated (src
\* with the keys still to visit, or the index i) and what was built so far (acc).
RECURSIVE Store(_, _), StoreItems(_), StoreElems(_)
Store(h, t) ==
    IF IsDictTree(t)
    THEN LET r == StoreItems([h |-> h, src |-> t[2], keys |-> DOMAIN t[2],
                              acc |-> EmptyItems])
         IN  Alloc(r.h, D(r.acc))
    ELSE IF IsListTree(t)
    THEN LET r == StoreElems([h |-> h, src |-> t[2], i |-> 1, acc |-> <<>>])
         IN  Alloc(r.h, L(r.acc))
    ELSE [h |-> h, v |-> t]
StoreItems(st) ==
    IF st.keys = {} THEN st
    ELSE LET k == CHOOSE x \in st.keys : TRUE
             c == Store(st.h, st.src[k])
         IN  StoreItems([h |-> c.h, src |-> st.src, keys |-> st.keys \ {k},
                         acc |-> (k :> c.v) @@ st.acc])
StoreElems(st) ==
    IF st.i > Len(st.src) THEN st
    ELSE LET c == Store(st.h, st.src[st.i])
         IN  StoreElems([h |-> c.h, src |-> st.src, i |-> st.i + 1,
                         acc |-> Append(st.acc, c.v)])

(***************************************************************************)
(* AdaptiveSettings._deep_copy and AdaptiveSettings._merge_settings        *)
(***************************************************************************)
RECURSIVE _deep_copy(_, _), CopyItems(_), CopyElems(_)
\* a copy of the object itself only, as dict(obj) or list(obj) makes it
ShallowCopy(h, obj) ==
    IF IsRef(obj) THEN Alloc(h, h[obj[2]]) ELSE [h |-> h, v |-> obj]
_deep_copy(h, obj) ==
    IF IsDict(h, obj)
    THEN LET r == CopyItems([h |-> h, src |-> Items(h, obj),
                             keys |-> DOMAIN Items(h, obj), acc |-> EmptyItems])
         IN  Alloc(r.h, D(r.acc))
    ELSE IF IsList(h, obj)
    THEN LET r == CopyElems([h |-> h, src |-> Items(h, obj), i |-> 1, acc |-> <<>>])
         IN  Alloc(r.h, L(r.acc))
    ELSE [h |-> h, v |-> obj]
\* {key: self._deep_copy(value) for key, value in obj.items()}
CopyItems(st) ==
    IF st.keys = {} THEN st
    ELSE LET k == CHOOSE x \in st.keys : TRUE
             c == _deep_copy(st.h, st.src[k])
         IN  CopyItems([h |-> c.h, src |-> st.src, keys |-> st.keys \ {k},
                        acc |-> (k :> c.v) @@ st.acc])
\* [self._deep_copy(item) for item in obj]
CopyElems(st) ==
    IF st.i > Len(st.src) THEN st
    ELSE LET c == _deep_copy(st.h, st.src[st.i])
         IN  CopyElems([h |-> c.h, src |-> st.src, i |-> st.i + 1,
                        acc |-> Append(st.acc, c.v)])

RECURSIVE _merge_settings(_, _, _), MergeItems(_)
\* a merge that is a plain dict.update: no recursion into nested mappings
MergeByUpdate(h, b, u) ==
    LET c == _deep_copy(h, b)
    IN  [h |-> [c.h EXCEPT ![c.v[2]] = D(Items(c.h, u) @@ @[2])], v |-> c.v]
\* a merge that extends a sequence present on both sides instead of replacing it
MergeExtendingLists(h, b, u) ==
    LET c == _deep_copy(h, b)
        r == MergeItems([h |-> c.h, result |-> c.v, update |-> u,
                         keys |-> DOMAIN Items(c.h, u)])
        both == {k \in DOMAIN Items(h, b) \cap DOMAIN Items(h, u) :
                    IsList(h, Items(h, b)[k]) /\ IsList(h, Items(h, u)[k])}
        old == [k \in both |-> Items(c.h, Items(c.h, c.v)[k])]
    IN  [h |-> [i \in DOMAIN r.h |->
                   IF \E k \in both : Items(r.h, c.v)[k] = Ref(i)
                   THEN LET k == CHOOSE k \in both : Items(r.h, c.v)[k] = Ref(i)
                        IN  L(old[k] \o r.h[i][2])
                   ELSE r.h[i]],
         v |-> c.v]
\* a variant in which the base's value wins where both sides have the key
RECURSIVE MergeItemsKeepingBase(_)
MergeItemsKeepingBase(st) ==
    IF st.keys = {} THEN st
    ELSE LET key == CHOOSE x \in st.keys : TRUE
             value == Items(st.h, st.update)[key]
             cur == Items(st.h, st.result)
             m == IF key \in DOMAIN cur /\ IsDict(st.h, cur[key]) /\ IsDict(st.h, value)
                  THEN _merge_settings(st.h, cur[key], value)
                  ELSE IF key \in DOMAIN cur THEN [h |-> st.h, v |-> cur[key]]
                  ELSE _deep_copy(st.h, value)
         IN  MergeItemsKeepingBase([h |-> SetItem(m.h, st.result, key, m.v),
                                    result |-> st.result, update |-> st.update,
                                    keys |-> st.keys \ {key}])
MergeKeepingBase(h, b, u) ==
    LET c == _deep_copy(h, b)
        r == MergeItemsKeepingBase([h |-> c.h, result |-> c.v, update |-> u,
                                    keys |-> DOMAIN Items(c.h, u)])
    IN  [h |-> r.h, v |-> c.v]

_merge_settings(h, b, u) ==
    LET c == _deep_copy(h, b)
        r == MergeItems([h |-> c.h, result |-> c.v, update |-> u,
                         keys |-> DOMAIN Items(c.h, u)])
    IN  [h |-> r.h, v |-> c.v]
\* for key, value in update.items(): ...
MergeItems(st) ==
    IF st.keys = {} THEN st
    ELSE LET key == CHOOSE x \in st.keys : TRUE
             value == Items(st.h, st.update)[key]
             cur == Items(st.h, st.result)
             m == IF key \in DOMAIN cur /\ IsDict(st.h, cur[key]) /\ IsDict(st.h, value)
                  THEN _merge_settings(st.h, cur[key], value)
                  ELSE _deep_copy(st.h, value)
         IN  MergeItems([h |-> SetItem(m.h, st.result, key, m.v), result |-> st.result,
                         update |-> st.update, keys |-> st.keys \ {key}])

(***************************************************************************)
(* AdaptiveSettings.__init__: the three static catalogs, as literals       *)
(***************************************************************************)
default_settings ==
    D("cline_settings" :> D(
        "autoApprove" :> B(FALSE) @@ "alwaysAllowReadOnly" :> B(TRUE) @@
        "alwaysAllowWriteOnly" :> B(FALSE) @@ "requestLimit" :> I(25) @@
        "contextWindow" :> I(200000) @@ "maxResponseTokens" :> I(8192) @@
        "temperature" :> F(10) @@ "debugMode" :> B(FALSE) @@
        "experimentalFeatures" :> B(FALSE) @@ "customInstructions" :> S("") @@
        "preferredLanguage" :> S("ru") @@
        "codeStyle" :> D("indentation" :> I(4) @@ "quotes" :> S("double") @@
                         "semicolons" :> B(TRUE) @@ "trailingCommas" :> B(TRUE)) @@
        "performance" :> D("enableCaching" :> B(TRUE) @@ "maxCacheSize" :> I(100) @@
                           "parallelProcessing" :> B(FALSE) @@
                           "memoryOptimization" :> B(FALSE)) @@
        "security" :> D("restrictFileAccess" :> B(TRUE) @@ "sanitizeInputs" :> B(TRUE) @@
                        "logSecurityEvents" :> B(TRUE))))

project_specific_settings ==
    D("python" :> D(
          "codeStyle" :> D("indentation" :> I(4) @@ "quotes" :> S("double") @@
                           "lineLength" :> I(88)) @@
          "linting" :> D("enableFlake8" :> B(TRUE) @@ "enableBlack" :> B(TRUE) @@
                         "enableMypy" :> B(TRUE)) @@
          "testing" :> D("framework" :> S("pytest") @@ "coverage" :> B(TRUE) @@
                         "autoDiscovery" :> B(TRUE))) @@
      "javascript" :> D(
          "codeStyle" :> D("indentation" :> I(2) @@ "quotes" :> S("single") @@
                           "semicolons" :> B(FALSE) @@ "trailingCommas" :> B(TRUE)) @@
          "linting" :> D("enableESLint" :> B(TRUE) @@ "enablePrettier" :> B(TRUE)) @@
          "build" :> D("enableSourceMaps" :> B(TRUE) @@ "minification" :> B(TRUE))) @@
      "typescript" :> D(
          "codeStyle" :> D("indentation" :> I(2) @@ "quotes" :> S("single") @@
                           "semicolons" :> B(FALSE) @@ "strictMode" :> B(TRUE)) @@
          "typeChecking" :> D("strict" :> B(TRUE) @@ "noImplicitAny" :> B(TRUE) @@
                              "strictNullChecks" :> B(TRUE))) @@
      "web" :> D(
          "features" :> D("autoReload" :> B(TRUE) @@ "livePreview" :> B(TRUE) @@
                          "responsiveDesign" :> B(TRUE)) @@
          "optimization" :> D("imageOptimization" :> B(TRUE) @@
                              "cssMinification" :> B(TRUE) @@
                              "jsMinification" :> B(TRUE))))

performance_settings ==
    D("high_memory" :> D("contextWindow" :> I(300000) @@ "maxResponseTokens" :> I(12288) @@
                         "enableCaching" :> B(TRUE) @@ "maxCacheSize" :> I(200) @@
                         "parallelProcessing" :> B(TRUE)) @@
      "low_memory" :> D("contextWindow" :> I(100000) @@ "maxResponseTokens" :> I(4096) @@
                        "enableCaching" :> B(FALSE) @@ "maxCacheSize" :> I(50) @@
                        "parallelProcessing" :> B(FALSE) @@
                        "memoryOptimization" :> B(TRUE)) @@
      "high_cpu" :> D("parallelProcessing" :> B(TRUE) @@ "backgroundProcessing" :> B(TRUE) @@
                      "optimizeAlgorithms" :> B(TRUE)) @@
      "low_cpu" :> D("parallelProcessing" :> B(FALSE) @@
                     "backgroundProcessing" :> B(FALSE) @@
                     "simpleAlgorithms" :> B(TRUE)))

(***************************************************************************)
(* Reading a dict: d.get(k, default), and d.update(other)                  *)
(***************************************************************************)
\* items.get(k, dflt) on the items of a dict
GetOr(items, k, dflt) == IF k \in DOMAIN items THEN items[k] ELSE dflt
\* the items of d.get(k, {}): the default {} is only ever read
SubItems(h, items, k) == IF k \in DOMAIN items THEN Items(h, items[k]) ELSE EmptyItems
\* the elements of d.get(k, [])
SubElems(h, items, k) == IF k \in DOMAIN items THEN Items(h, items[k]) ELSE <<>>
\* d.update(other): a shallow copy of other's entries into the object d
Update(h, d, other) == [h EXCEPT ![d[2]] = D(other @@ @[2])]
\* settings = {'cline_settings': {}}
NewSettings(h) ==
    LET inner == Alloc(h, D(EmptyItems))
        outer == Alloc(inner.h, D("cline_settings" :> inner.v))
    IN  [h |-> outer.h, v |-> outer.v, cs |-> inner.v]
\* bool(v): the truth value Python gives a value
Truthy(h, v) ==
    CASE v[1] = "bool" -> v[2]
      [] v[1] = "int" -> v[2] # 0
      [] v[1] = "float" -> v[2] # 0
      [] v[1] = "str" -> v[2] # ""
      [] v[1] = "ref" -> Items(h, v) # <<>>
      [] OTHER -> FALSE
\* x in list
InList(elems, x) == \E i \in 1..Len(elems) : elems[i] = x

(***************************************************************************)
(* AdaptiveSettings: the layer builders.  Each takes the heap and returns  *)
(* the heap after it and the reference it returns.  memory.total is held   *)
(* in MiB, so that 4 GiB and 16 GiB are 4 * GiB and 16 * GiB.              *)
(***************************************************************************)
GiB == 1024

\* the threshold tests of the layer builders
LowMemory(memory_percent, memory_total) == memory_percent > 80 \/ memory_total < 4 * GiB
HighMemory(memory_total) == memory_total > 16 * GiB
LowCpu(cpu_percent, cpu_count) == cpu_percent > 80 \/ cpu_count < 4
HighCpu(cpu_count) == cpu_count > 8
LargeProject(total_files) == total_files > 100
\* variants with the boundary on the other side
MediumProjectFrom50(total_files) == total_files >= 50
PolyglotFromTwo(languages_count) == languages_count >= 2
NoviceUpToTen(sessions_count) == sessions_count <= 10
MediumProject(total_files) == total_files > 50
Polyglot(languages_count) == languages_count > 2
Experienced(sessions_count) == sessions_count > 100
Novice(sessions_count) == sessions_count < 10
ManyErrors(error_patterns) == Len(error_patterns) > 10

web_indicators == {S("javascript"), S("typescript"), S("html"), S("css")}
web_frameworks == {S("nodejs"), S("react"), S("vue"), S("angular")}

_is_web_project(h, project_structure) ==
    LET languages == SubElems(h, project_structure, "languages")
        frameworks == SubElems(h, project_structure, "frameworks")
    IN  \/ \E i \in 1..Len(languages) : languages[i] \in web_indicators
        \/ \E i \in 1..Len(frameworks) : frameworks[i] \in web_frameworks

_adapt_for_project_type(h, slf, config_data) ==
    LET settings == NewSettings(h)
        project_structure == SubItems(h, Items(h, config_data), "project_structure")
        project_type == GetOr(project_structure, "project_type", S("unknown"))
        languages == SubElems(h, project_structure, "languages")
        catalog == Items(h, slf.project_specific_settings)
        h1 == IF languages # <<>> /\ languages[1][2] \in DOMAIN catalog
              THEN Update(settings.h, settings.cs, Items(h, catalog[languages[1][2]]))
              ELSE settings.h
        h2 == IF project_type[2] \in DOMAIN catalog
              THEN Update(h1, settings.cs, Items(h, catalog[project_type[2]]))
              ELSE h1
        h3 == IF _is_web_project(h, project_structure)
              THEN Update(h2, settings.cs, SubItems(h, catalog, "web"))
              ELSE h2
    IN  [h |-> h3, v |-> settings.v]

\* a variant in which a remediation fills in a key only where no tier has set it
RECURSIVE ApplyIssuesKeepingTiers(_)
ApplyIssuesKeepingTiers(st) ==
    IF st.i > Len(st.issues) THEN st.h
    ELSE LET issue == Items(st.h, st.issues[st.i])
             cur == Items(st.h, st.cs)
             h1 == IF issue["type"] = S("memory") /\ issue["severity"] = S("high")
                   THEN Update(st.h, st.cs,
                               cur @@ ("memoryOptimization" :> B(TRUE) @@
                                       "enableCaching" :> B(FALSE)))
                   ELSE IF issue["type"] = S("cpu") /\ issue["severity"] = S("high")
                   THEN Update(st.h, st.cs,
                               cur @@ ("parallelProcessing" :> B(FALSE) @@
                                       "maxResponseTokens" :> I(4096)))
                   ELSE st.h
         IN  ApplyIssuesKeepingTiers([h |-> h1, cs |-> st.cs, issues |-> st.issues,
                                      i |-> st.i + 1])

\* a variant in which the memory remediation is written into the nested
\* performance section
RECURSIVE ApplyIssuesInPerformance(_)
ApplyIssuesInPerformance(st) ==
    IF st.i > Len(st.issues) THEN st.h
    ELSE LET issue == Items(st.h, st.issues[st.i])
             section == Alloc(st.h, D("memoryOptimization" :> B(TRUE) @@
                                      "enableCaching" :> B(FALSE)))
             h1 == IF issue["type"] = S("memory") /\ issue["severity"] = S("high")
                   THEN SetItem(section.h, st.cs, "performance", section.v)
                   ELSE IF issue["type"] = S("cpu") /\ issue["severity"] = S("high")
                   THEN SetItem(SetItem(st.h, st.cs, "parallelProcessing", B(FALSE)),
                                st.cs, "maxResponseTokens", I(4096))
                   ELSE st.h
         IN  ApplyIssuesInPerformance([h |-> h1, cs |-> st.cs, issues |-> st.issues,
                                       i |-> st.i + 1])

\* for issue in performance_issues: ...
RECURSIVE ApplyIssues(_)
ApplyIssues(st) ==
    IF st.i > Len(st.issues) THEN st.h
    ELSE LET issue == Items(st.h, st.issues[st.i])
             h1 == IF issue["type"] = S("memory") /\ issue["severity"] = S("high")
                   THEN SetItem(SetItem(st.h, st.cs, "memoryOptimization", B(TRUE)),
                                st.cs, "enableCaching", B(FALSE))
                   ELSE IF issue["type"] = S("cpu") /\ issue["severity"] = S("high")
                   THEN SetItem(SetItem(st.h, st.cs, "parallelProcessing", B(FALSE)),
                                st.cs, "maxResponseTokens", I(4096))
                   ELSE st.h
         IN  ApplyIssues([h |-> h1, cs |-> st.cs, issues |-> st.issues, i |-> st.i + 1])

_adapt_for_performance(h, slf, performance_data) ==
    LET settings == NewSettings(h)
        system_metrics == SubItems(h, Items(h, performance_data), "system_metrics")
        performance_issues == SubElems(h, Items(h, performance_data), "performance_issues")
        memory_info == SubItems(h, system_metrics, "memory")
        cpu_info == SubItems(h, system_metrics, "cpu")
        memory_percent == GetOr(memory_info, "percent", I(0))[2]
        memory_total == GetOr(memory_info, "total", I(0))[2]
        cpu_percent == GetOr(cpu_info, "percent", I(0))[2]
        cpu_count == GetOr(cpu_info, "count", I(1))[2]
        tiers == Items(h, slf.performance_settings)
        h1 == IF LowMemory(memory_percent, memory_total)
              THEN Update(settings.h, settings.cs, Items(h, tiers["low_memory"]))
              ELSE IF HighMemory(memory_total)
              THEN Update(settings.h, settings.cs, Items(h, tiers["high_memory"]))
              ELSE settings.h
        h2 == IF LowCpu(cpu_percent, cpu_count)
              THEN Update(h1, settings.cs, Items(h, tiers["low_cpu"]))
              ELSE IF HighCpu(cpu_count)
              THEN Update(h1, settings.cs, Items(h, tiers["high_cpu"]))
              ELSE h1
    IN  IF system_metrics = EmptyItems
        THEN [h |-> settings.h, v |-> settings.v]
        ELSE [h |-> ApplyIssues([h |-> h2, cs |-> settings.cs,
                                 issues |-> performance_issues, i |-> 1]),
              v |-> settings.v]

_adapt_for_project_scale(h, slf, config_data) ==
    LET settings == NewSettings(h)
        project_structure == SubItems(h, Items(h, config_data), "project_structure")
        total_files == GetOr(project_structure, "total_files", I(0))[2]
        languages_count == Len(SubElems(h, project_structure, "languages"))
        h1 == IF LargeProject(total_files)
              THEN Update(settings.h, settings.cs,
                          "requestLimit" :> I(50) @@ "contextWindow" :> I(250000) @@
                          "enableCaching" :> B(TRUE) @@ "maxCacheSize" :> I(150))
              ELSE IF MediumProject(total_files)
              THEN Update(settings.h, settings.cs,
                          "requestLimit" :> I(35) @@ "contextWindow" :> I(200000) @@
                          "enableCaching" :> B(TRUE))
              ELSE Update(settings.h, settings.cs,
                          "requestLimit" :> I(20) @@ "contextWindow" :> I(150000))
        h2 == IF Polyglot(languages_count)
              THEN Update(h1, settings.cs,
                          "contextWindow" :>
                              I(GetOr(Items(h1, settings.cs), "contextWindow", I(200000))[2]
                                + 50000) @@
                          "maxResponseTokens" :> I(10240))
              ELSE h1
    IN  [h |-> h2, v |-> settings.v]

_adapt_for_usage_patterns(h, slf, config_data, performance_data) ==
    LET settings == NewSettings(h)
        usage_patterns == SubItems(h, Items(h, config_data), "usage_patterns")
        sessions_count == GetOr(usage_patterns, "sessions_count", I(0))[2]
        error_patterns == SubElems(h, usage_patterns, "error_patterns")
        h1 == IF Experienced(sessions_count)
              THEN Update(settings.h, settings.cs,
                          "autoApprove" :> B(TRUE) @@ "experimentalFeatures" :> B(TRUE) @@
                          "debugMode" :> B(FALSE))
              ELSE IF Novice(sessions_count)
              THEN Update(settings.h, settings.cs,
                          "autoApprove" :> B(FALSE) @@ "experimentalFeatures" :> B(FALSE) @@
                          "debugMode" :> B(TRUE))
              ELSE settings.h
        security == Alloc(h1, D("restrictFileAccess" :> B(TRUE) @@
                                "sanitizeInputs" :> B(TRUE)))
        h2 == IF ManyErrors(error_patterns)
              THEN Update(security.h, settings.cs,
                          "temperature" :> F(5) @@ "security" :> security.v)
              ELSE h1
    IN  [h |-> h2, v |-> settings.v]

\* a variant that forgets the last key
PreserveKeysWithoutAutoApprove == <<"customInstructions", "preferredLanguage">>

preserve_keys == <<"customInstructions", "preferredLanguage", "autoApprove">>

\* for key in preserve_keys: ...
RECURSIVE PreserveKeys(_)
PreserveKeys(st) ==
    IF st.i > Len(preserve_keys) THEN st.h
    ELSE LET key == preserve_keys[st.i]
             h1 == IF key \in DOMAIN st.current
                   THEN SetItem(st.h, st.cs, key, st.current[key])
                   ELSE st.h
         IN  PreserveKeys([h |-> h1, cs |-> st.cs, current |-> st.current, i |-> st.i + 1])

_preserve_user_settings(h, slf, config_data) ==
    LET user_settings == NewSettings(h)
        vscode_settings == SubItems(h, Items(h, config_data), "vscode_settings")
        current_cline_settings == SubItems(h, vscode_settings, "cline_settings")
    IN  [h |-> PreserveKeys([h |-> user_settings.h, cs |-> user_settings.cs,
                             current |-> current_cline_settings, i |-> 1]),
         v |-> user_settings.v]

_generate_vscode_config(h, slf, adaptive_config, config_data) ==
    LET vscode_config == Alloc(h, D(EmptyItems))
        project_structure == SubItems(h, Items(h, config_data), "project_structure")
        languages == SubElems(h, project_structure, "languages")
        h1 == IF InList(languages, S("python"))
              THEN Update(vscode_config.h, vscode_config.v,
                          "python.defaultInterpreterPath" :> S("./venv/bin/python") @@
                          "python.linting.enabled" :> B(TRUE) @@
                          "python.linting.pylintEnabled" :> B(TRUE) @@
                          "python.formatting.provider" :> S("black") @@
                          "python.testing.pytestEnabled" :> B(TRUE))
              ELSE vscode_config.h
        h2 == IF InList(languages, S("javascript")) \/ InList(languages, S("typescript"))
              THEN Update(h1, vscode_config.v,
                          "eslint.enable" :> B(TRUE) @@ "prettier.enable" :> B(TRUE) @@
                          "javascript.preferences.includePackageJsonAutoImports" :> S("auto") @@
                          "typescript.preferences.includePackageJsonAutoImports" :> S("auto"))
              ELSE h1
        cline_settings == SubItems(h, Items(h, adaptive_config), "cline_settings")
        code_style == SubItems(h, cline_settings, "codeStyle")
        h3 == IF code_style # EmptyItems
              THEN Update(h2, vscode_config.v,
                          "editor.tabSize" :> GetOr(code_style, "indentation", I(4)) @@
                          "editor.insertSpaces" :> B(TRUE) @@
                          "editor.detectIndentation" :> B(FALSE))
              ELSE h2
        performance == SubItems(h, cline_settings, "performance")
        exclude == Alloc(h3, D("**/.git/objects/**" :> B(TRUE) @@
                               "**/.git/subtree-cache/**" :> B(TRUE) @@
                               "**/node_modules/**" :> B(TRUE) @@
                               "**/.hg/store/**" :> B(TRUE)))
        h4 == IF Truthy(h3, GetOr(performance, "memoryOptimization", NoRef))
              THEN Update(exclude.h, vscode_config.v,
                          "typescript.disableAutomaticTypeAcquisition" :> B(TRUE) @@
                          "search.followSymlinks" :> B(FALSE) @@
                          "files.watcherExclude" :> exclude.v)
              ELSE h3
    IN  [h |-> h4, v |-> vscode_config.v]

\* The body of generate_adaptive_config, statement by statement.  acc is the
\* state of the call: the heap, adaptive_config, and the layers folded so far.
\* adaptive_config = self._deep_copy(self.default_settings)
StartFromDefaults(c) == [h |-> c.h, v |-> c.v, layers |-> <<Deref(c.h, c.v)>>]
\* adaptive_config = self._merge_settings(adaptive_config, layer)
FoldResult(acc, tree, m) == [h |-> m.h, v |-> m.v, layers |-> Append(acc.layers, tree)]
FoldLayer(acc, layer) ==
    FoldResult(acc, Deref(layer.h, layer.v), _merge_settings(layer.h, acc.v, layer.v))
WithProjectType(acc, slf, config_data) ==
    FoldLayer(acc, _adapt_for_project_type(acc.h, slf, config_data))
WithPerformance(acc, slf, performance_data) ==
    FoldLayer(acc, _adapt_for_performance(acc.h, slf, performance_data))
WithProjectScale(acc, slf, config_data) ==
    FoldLayer(acc, _adapt_for_project_scale(acc.h, slf, config_data))
WithUsagePatterns(acc, slf, config_data, performance_data) ==
    FoldLayer(acc, _adapt_for_usage_patterns(acc.h, slf, config_data, performance_data))
WithUserSettings(acc, slf, config_data) ==
    FoldLayer(acc, _preserve_user_settings(acc.h, slf, config_data))
\* adaptive_config.update(vscode_config)
UpdateWith(acc, vscode_config) ==
    [layers |-> acc.layers,
     h |-> Update(vscode_config.h, acc.v, Items(vscode_config.h, vscode_config.v)),
     v |-> acc.v]
\* a variant that derives the editor settings from the defaults
WithVscodeConfigFromDefaults(acc, slf, config_data) ==
    UpdateWith(acc, _generate_vscode_config(acc.h, slf, slf.default_settings, config_data))
WithVscodeConfig(acc, slf, config_data) ==
    UpdateWith(acc, _generate_vscode_config(acc.h, slf, acc.v, config_data))

generate_adaptive_config(h, slf, config_data, performance_data) ==
    WithVscodeConfig(
      WithUserSettings(
        WithUsagePatterns(
          WithProjectScale(
            WithPerformance(
              WithProjectType(
                StartFromDefaults(_deep_copy(h, slf.default_settings)),
                slf, config_data),
              slf, performance_data),
            slf, config_data),
          slf, config_data, performance_data),
        slf, config_data),
      slf, config_data)

(***************************************************************************)
(* Scenario 1: one caller merges two trees, may merge the overlay into the *)
(* result once more, and may afterwards change the returned tree in place. *)
(***************************************************************************)
MaxChanges == 1

Scalars == {I(1), I(2)}
Inner == {D("a" :> I(1)), D("b" :> I(2)), D("a" :> D("b" :> I(1))),
          D("a" :> D("a" :> I(2)))}
Lists == {L(<<I(1)>>), L(<<I(2), D("a" :> I(1))>>)}
TopKeys == {"a", "b"}
TopValues == Scalars \cup Inner \cup Lists
MergeTrees == {D(f) : f \in UNION {[ks -> TopValues] : ks \in SUBSET TopKeys}}

\* the overlay literal; with sharing, a sub-tree equal to the base's sub-tree under
\* the same key is the very same object (one literal used in two layers)
RECURSIVE StoreOverlay(_)
StoreOverlay(st) ==
    IF st.keys = {} THEN Alloc(st.h, D(st.acc))
    ELSE LET k == CHOOSE x \in st.keys : TRUE
             bi == Items(st.h, st.base)
             c == IF st.sharing /\ k \in DOMAIN bi /\ IsRef(bi[k])
                     /\ Deref(st.h, bi[k]) = st.src[k]
                  THEN [h |-> st.h, v |-> bi[k]]
                  ELSE Store(st.h, st.src[k])
         IN  StoreOverlay([h |-> c.h, src |-> st.src, keys |-> st.keys \ {k},
                           acc |-> (k :> c.v) @@ st.acc, base |-> st.base,
                           sharing |-> st.sharing])

InitMerge ==
    \E bt \in MergeTrees, ut \in MergeTrees, sharing \in BOOLEAN :
        LET sb == Store(<<>>, bt)
            su == StoreOverlay([h |-> sb.h, src |-> ut[2], keys |-> DOMAIN ut[2],
                                acc |-> EmptyItems, base |-> sb.v, sharing |-> sharing])
        IN  /\ heap = su.h
            /\ base = sb.v
            /\ update = su.v
            /\ result = NoRef
            /\ before = [base |-> bt, update |-> ut, result |-> NoRef]
            /\ changes = 0
            /\ pc = "merge"
            /\ AdaptiveIdle
            /\ RulesIdle
            /\ LaterIdle

\* result = self._merge_settings(base, update)
MergeCall ==
    /\ pc = "merge"
    /\ LET m == _merge_settings(heap, base, update)
       IN  /\ heap' = m.h
           /\ result' = m.v
    /\ before' = [base |-> Deref(heap, base), update |-> Deref(heap, update),
                  result |-> NoRef]
    /\ pc' = "merged"
    /\ UNCHANGED <<base, update, changes, adaptiveVars, rulesVars, laterVars>>

\* result = self._merge_settings(result, update): the same overlay applied again
MergeAgain ==
    /\ pc = "merged"
    /\ changes = 0
    /\ LET m == _merge_settings(heap, result, update)
       IN  /\ heap' = m.h
           /\ result' = m.v
    /\ before' = [before EXCEPT !.result = Deref(heap, result)]
    /\ pc' = "again"
    /\ UNCHANGED <<base, update, changes, adaptiveVars, rulesVars, laterVars>>

\* the caller changes the returned tree in place: d[k] = v, del d[k] or l.append(v)
\* on any mapping or sequence of it
ChangeResult ==
    /\ pc \in {"merged", "again"}
    /\ changes < MaxChanges
    /\ \E i \in Reach(heap, result) :
          \/ /\ heap[i][1] = "dict"
             /\ heap' = SetItem(heap, Ref(i), "z", I(9))
          \/ /\ heap[i][1] = "dict"
             /\ \E k \in DOMAIN heap[i][2] : heap' = DelItem(heap, Ref(i), k)
          \/ /\ heap[i][1] = "list"
             /\ heap' = ListAppend(heap, Ref(i), I(9))
    /\ changes' = changes + 1
    /\ UNCHANGED <<pc, base, update, result, before, adaptiveVars, rulesVars, laterVars>>

NextMerge == MergeCall \/ MergeAgain \/ ChangeResult

SpecMerge == InitMerge /\ [][NextMerge]_vars

(***************************************************************************)
(* Scenario 2: a caller holds one AdaptiveSettings instance and one        *)
(* snapshot and calls generate_adaptive_config on it, up to MaxCalls times.*)
(***************************************************************************)
MaxCalls == 2
MaxIssues == 1

Absent == <<"absent">>
\* the entry k: v of a dict literal, or nothing when the snapshot lacks the key
Opt(k, v) == IF v = Absent THEN EmptyItems ELSE k :> v

LanguageChoices == {Absent, L(<<S("python")>>), L(<<S("go"), S("javascript")>>),
                    L(<<S("javascript"), S("python")>>),
                    L(<<S("typescript"), S("python"), S("go")>>)}
ProjectTypeChoices == {Absent, S("python")}
FrameworkChoices == {Absent, L(<<S("react")>>)}
TotalFilesChoices == {Absent, I(50), I(51), I(100), I(101)}
ProjectStructures ==
    {Absent} \cup
    {D(Opt("languages", ls) @@ Opt("project_type", pt) @@ Opt("frameworks", fw) @@
       Opt("total_files", tf)) :
        ls \in LanguageChoices, pt \in ProjectTypeChoices, fw \in FrameworkChoices,
        tf \in TotalFilesChoices}

MemoryChoices == {Absent,
                  D("percent" :> I(85)),
                  D("percent" :> I(50) @@ "total" :> I(4 * GiB)),
                  D("percent" :> I(80) @@ "total" :> I(4 * GiB - 1)),
                  D("percent" :> I(50) @@ "total" :> I(16 * GiB)),
                  D("percent" :> I(50) @@ "total" :> I(16 * GiB + 1)),
                  D("percent" :> I(81) @@ "total" :> I(17 * GiB))}
CpuChoices == {Absent,
               D("percent" :> I(10) @@ "count" :> I(4)),
               D("percent" :> I(80) @@ "count" :> I(9)),
               D("percent" :> I(81) @@ "count" :> I(16))}
SystemMetrics ==
    {Absent} \cup
    {D(Opt("memory", m) @@ Opt("cpu", c)) : m \in MemoryChoices, c \in CpuChoices}
IssueKinds == {D("type" :> S("memory") @@ "severity" :> S("high")),
               D("type" :> S("cpu") @@ "severity" :> S("high")),
               D("type" :> S("memory") @@ "severity" :> S("medium")),
               D("type" :> S("disk") @@ "severity" :> S("high"))}
IssueLists == {Absent} \cup {L(q) : q \in UNION {[1..n -> IssueKinds] : n \in 0..MaxIssues}}
PerformanceSnapshots ==
    {D(Opt("system_metrics", sm) @@ Opt("performance_issues", is)) :
        sm \in SystemMetrics, is \in IssueLists}

Errors(n) == L([i \in 1..n |-> S("error")])
UsagePatterns ==
    {Absent} \cup
    {D(Opt("sessions_count", sc) @@ Opt("error_patterns", ep)) :
        sc \in {Absent, I(9), I(10), I(100), I(101)},
        ep \in {Absent, Errors(10), Errors(11)}}

UserClineSettings ==
    {Absent,
     D(EmptyItems),
     D("autoApprove" :> B(FALSE)),
     D("autoApprove" :> B(TRUE) @@ "preferredLanguage" :> S("en")),
     D("customInstructions" :> L(<<S("be brief")>>) @@ "requestLimit" :> I(999) @@
       "theme" :> S("dark"))}
VscodeSettings == {Absent} \cup {D(Opt("cline_settings", cs)) : cs \in UserClineSettings}

ConfigData(ps, up, vs) ==
    D(Opt("project_structure", ps) @@ Opt("usage_patterns", up) @@
      Opt("vscode_settings", vs))

\* The snapshots, as pairs <<config_data, performance_data>>.  The layers read
\* disjoint parts of a snapshot, so the parts are varied together where their
\* layers write the same keys: scale with the memory tier and the remediations
\* (contextWindow, maxResponseTokens, enableCaching), the tiers with the
\* remediations, usage patterns with the user's settings (autoApprove), and the
\* project type on its own.
ScaleStructures ==
    {Absent} \cup
    {D(Opt("languages", ls) @@ Opt("total_files", tf)) :
        ls \in {L(<<S("go"), S("javascript")>>),
                L(<<S("typescript"), S("python"), S("go")>>)},
        tf \in TotalFilesChoices}
MemoryMetrics == {D("memory" :> m) : m \in MemoryChoices \ {Absent}}
FewPerformanceSnapshots ==
    {D(EmptyItems),
     D("system_metrics" :> D("memory" :> D("percent" :> I(85))) @@
       "performance_issues" :> L(<<D("type" :> S("cpu") @@ "severity" :> S("high"))>>))}
FewProjectStructures ==
    {Absent,
     D("languages" :> L(<<S("typescript"), S("python"), S("go")>>) @@
       "project_type" :> S("python") @@ "total_files" :> I(101))}
Snapshots ==
    {<<ConfigData(ps, Absent, Absent),
       D(Opt("system_metrics", sm) @@ Opt("performance_issues", is))>> :
        ps \in ScaleStructures, sm \in MemoryMetrics, is \in IssueLists}
    \cup {<<ConfigData(ps, Absent, Absent), pd>> :
        ps \in FewProjectStructures, pd \in PerformanceSnapshots}
    \cup {<<ConfigData(ps, Absent, Absent), pd>> :
        ps \in ProjectStructures, pd \in FewPerformanceSnapshots}
    \cup {<<ConfigData(ps, up, vs), pd>> :
        ps \in FewProjectStructures, up \in UsagePatterns, vs \in VscodeSettings,
        pd \in FewPerformanceSnapshots}

\* settings = AdaptiveSettings(): the heap holding the three catalogs, and the instance
NewAdaptiveSettings ==
    LET a == Store(<<>>, default_settings)
        b == Store(a.h, project_specific_settings)
        c == Store(b.h, performance_settings)
    IN  [h |-> c.h,
         v |-> [default_settings |-> a.v, project_specific_settings |-> b.v,
                performance_settings |-> c.v]]

InitAdaptive ==
    \E sn \in Snapshots :
        LET d == Store(NewAdaptiveSettings.h, sn[1])
            e == Store(d.h, sn[2])
        IN  /\ heap = e.h
            /\ self = NewAdaptiveSettings.v
            /\ current_config = d.v
            /\ perf_snapshot = e.v
            /\ returned_config = NoRef
            /\ layers = <<>>
            /\ previous = NoRef
            /\ calls = 0
            /\ pc = "adaptive"
            /\ MergeIdle
            /\ RulesIdle
            /\ LaterIdle

\* adaptive_config = self.adaptive_settings.generate_adaptive_config(current_config, performance_data)
GenerateAdaptiveConfig ==
    /\ pc = "adaptive"
    /\ calls < MaxCalls
    /\ LET g == generate_adaptive_config(heap, self, current_config, perf_snapshot)
       IN  /\ heap' = g.h
           /\ returned_config' = g.v
           /\ layers' = g.layers
    /\ previous' = IF calls = 0 THEN NoRef ELSE Deref(heap, returned_config)
    /\ calls' = calls + 1
    /\ UNCHANGED <<pc, self, current_config, perf_snapshot, mergeVars, rulesVars, laterVars>>

NextAdaptive == GenerateAdaptiveConfig

SpecAdaptive == InitAdaptive /\ [][NextAdaptive]_vars

(***************************************************************************)
(* Scenario 3: RulesGenerator._remove_duplicates.  A rule is a string,     *)
(* modelled as the sequence of its characters, so that lower() and strip() *)
(* act on it as they do in Python.                                         *)
(***************************************************************************)
MaxRules == 3

\* str.lower() on the letters of the rule texts: A-Z and the Cyrillic capitals
Uppercase ==
    "A" :> "a" @@ "B" :> "b" @@ "C" :> "c" @@ "D" :> "d" @@ "E" :> "e" @@ "F" :> "f" @@
    "G" :> "g" @@ "H" :> "h" @@ "I" :> "i" @@ "J" :> "j" @@ "K" :> "k" @@ "L" :> "l" @@
    "M" :> "m" @@ "N" :> "n" @@ "O" :> "o" @@ "P" :> "p" @@ "Q" :> "q" @@ "R" :> "r" @@
    "S" :> "s" @@ "T" :> "t" @@ "U" :> "u" @@ "V" :> "v" @@ "W" :> "w" @@ "X" :> "x" @@
    "Y" :> "y" @@ "Z" :> "z" @@ "~A" :> "~a" @@ "~B" :> "~b" @@ "~V" :> "~v" @@
    "~G" :> "~g" @@ "~D" :> "~d" @@ "~E" :> "~e" @@ "~YO" :> "~yo" @@ "~ZH" :> "~zh" @@
    "~Z" :> "~z" @@ "~I" :> "~i" @@ "~J" :> "~j" @@ "~K" :> "~k" @@ "~L" :> "~l" @@
    "~M" :> "~m" @@ "~N" :> "~n" @@ "~O" :> "~o" @@ "~P" :> "~p" @@ "~R" :> "~r" @@
    "~S" :> "~s" @@ "~T" :> "~t" @@ "~U" :> "~u" @@ "~F" :> "~f" @@ "~H" :> "~h" @@
    "~C" :> "~c" @@ "~CH" :> "~ch" @@ "~SH" :> "~sh" @@ "~SCH" :> "~sch" @@
    "~HARD" :> "~hard" @@ "~Y" :> "~y" @@ "~SOFT" :> "~soft" @@ "~EH" :> "~eh" @@
    "~YU" :> "~yu" @@ "~YA" :> "~ya"
Whitespace == {" ", "\t"}

Lower(text) ==
    [i \in 1..Len(text) |-> IF text[i] \in DOMAIN Uppercase THEN Uppercase[text[i]]
                            ELSE text[i]]

\* str.strip(): drop the leading and the trailing whitespace
RECURSIVE Strip(_)
Strip(text) ==
    IF text = <<>> THEN text
    ELSE IF Head(text) \in Whitespace THEN Strip(Tail(text))
    ELSE IF text[Len(text)] \in Whitespace THEN Strip(SubSeq(text, 1, Len(text) - 1))
    ELSE text

\* for rule in rules: ...
RECURSIVE RemoveLoop(_)
RemoveLoop(st) ==
    IF st.i > Len(st.rules) THEN st.unique_rules
    ELSE LET rule == st.rules[st.i]
             rule_lower == Strip(Lower(rule))
         IN  IF rule_lower \notin st.seen
             THEN RemoveLoop([rules |-> st.rules, i |-> st.i + 1,
                              seen |-> st.seen \cup {rule_lower},
                              unique_rules |-> Append(st.unique_rules, rule)])
             ELSE RemoveLoop([rules |-> st.rules, i |-> st.i + 1, seen |-> st.seen,
                              unique_rules |-> st.unique_rules])

\* a variant that keeps the normalised text of each survivor
RECURSIVE RemoveLoopNormalised(_)
RemoveLoopNormalised(st) ==
    IF st.i > Len(st.rules) THEN st.unique_rules
    ELSE LET rule == st.rules[st.i]
             rule_lower == Strip(Lower(rule))
         IN  IF rule_lower \notin st.seen
             THEN RemoveLoopNormalised([rules |-> st.rules, i |-> st.i + 1,
                              seen |-> st.seen \cup {rule_lower},
                              unique_rules |-> Append(st.unique_rules, rule_lower)])
             ELSE RemoveLoopNormalised([rules |-> st.rules, i |-> st.i + 1,
                              seen |-> st.seen, unique_rules |-> st.unique_rules])

RemoveDuplicatesNormalised(rule_list) ==
    RemoveLoopNormalised([rules |-> rule_list, i |-> 1, seen |-> {}, unique_rules |-> <<>>])

_remove_duplicates(rule_list) ==
    RemoveLoop([rules |-> rule_list, i |-> 1, seen |-> {}, unique_rules |-> <<>>])

\* rule texts: "Use", "use", " use ", "u s", "us", "" and "\t"
RuleTexts ==
    { <<"U", "s", "e">>, <<"u", "s", "e">>, <<" ", "u", "s", "e", " ">>,
      <<"u", " ", "s">>, <<"u", "S">>, <<>>, <<"\t">> }

RECURSIVE RuleLists(_)
RuleLists(n) ==
    IF n = 0 THEN {<<>>}
    ELSE LET shorter == RuleLists(n - 1)
         IN  shorter \cup {Append(l, t) : l \in {x \in shorter : Len(x) = n - 1},
                                          t \in RuleTexts}

InitRules ==
    /\ rules \in RuleLists(MaxRules)
    /\ unique_rules = <<>>
    /\ first_unique = <<>>
    /\ pc = "rules"
    /\ heap = <<>>
    /\ MergeIdle
    /\ AdaptiveIdle
    /\ LaterIdle

\* selected_rules = self._remove_duplicates(selected_rules)
RemoveDuplicates ==
    /\ pc = "rules"
    /\ unique_rules' = _remove_duplicates(rules)
    /\ first_unique' = _remove_duplicates(rules)
    /\ pc' = "unique"
    /\ UNCHANGED <<heap, rules, mergeVars, adaptiveVars, laterVars>>

\* the same call on the list it returned
RemoveDuplicatesAgain ==
    /\ pc = "unique"
    /\ unique_rules' = _remove_duplicates(unique_rules)
    /\ pc' = "unique_again"
    /\ UNCHANGED <<heap, rules, first_unique, mergeVars, adaptiveVars, laterVars>>

NextRules == RemoveDuplicates \/ RemoveDuplicatesAgain

SpecRules == InitRules /\ [][NextRules]_vars

(***************************************************************************)
(* RulesGenerator.generate_improved_rules (src/src/rules_generator.py).    *)
(* A str is the sequence of its letters, so that lower(), strip(),         *)
(* split(), join() and the substring test are computed on the text; a      *)
(* Cyrillic letter is written "~" followed by its transliteration.  The    *)
(* snapshots are read only (the one in-place call, frameworks.extend of    *)
(* line 209, appends the empty list of _detect_specific_frameworks), so    *)
(* a dict is the function from its keys and a list is a sequence.          *)
(***************************************************************************)
\* self.base_rules (rules_generator.py:17-53); the texts, letter by letter:
\*   general:
\*     Всегда используй понятные и описательные имена для переменных, функций и классов
\*     Добавляй комментарии для сложных алгоритмов и бизнес-логики
\*     Следуй принципам SOLID при разработке
\*     Избегай дублирования кода (DRY принцип)
\*     Используй константы вместо магических чисел
\*   security:
\*     Никогда не храни пароли и секретные ключи в коде
\*     Всегда валидируй пользовательский ввод
\*     Используй HTTPS для всех внешних запросов
\*     Логируй события безопасности
\*     Применяй принцип минимальных привилегий
\*   performance:
\*     Оптимизируй циклы и избегай излишней вложенности
\*     Используй кеширование для дорогостоящих операций
\*     Применяй ленивую загрузку где это возможно
\*     Минимизируй количество запросов к базе данных
\*     Профилируй код при подозрении на узкие места
\*   testing:
\*     Пиши unit-тесты для всех публичных методов
\*     Стремись к покрытию тестами не менее 80%
\*     Используй моки для внешних зависимостей
\*     Группируй тесты логически по модулям
\*     Тестируй граничные случаи и ошибки
\*   documentation:
\*     Пиши docstrings для всех публичных функций и классов
\*     Обновляй README.md при значимых изменениях
\*     Документируй API endpoints с примерами
\*     Веди changelog для релизов
\*     Добавляй инлайн-комментарии для неочевидного кода
base_rules ==
    ("general" :>
        << <<"~V", "~s", "~e", "~g", "~d", "~a", " ", "~i", "~s", "~p", "~o", "~l", "~soft", "~z", "~u", "~j", " ", "~p", "~o", "~n", "~ya", "~t", "~n", "~y", "~e", " ", "~i", " ", "~o", "~p", "~i", "~s", "~a", "~t", "~e", "~l", "~soft", "~n", "~y", "~e", " ", "~i", "~m", "~e", "~n", "~a", " ", "~d", "~l", "~ya", " ", "~p", "~e", "~r", "~e", "~m", "~e", "~n", "~n", "~y", "~h", ",", " ", "~f", "~u", "~n", "~k", "~c", "~i", "~j", " ", "~i", " ", "~k", "~l", "~a", "~s", "~s", "~o", "~v">>,
          <<"~D", "~o", "~b", "~a", "~v", "~l", "~ya", "~j", " ", "~k", "~o", "~m", "~m", "~e", "~n", "~t", "~a", "~r", "~i", "~i", " ", "~d", "~l", "~ya", " ", "~s", "~l", "~o", "~zh", "~n", "~y", "~h", " ", "~a", "~l", "~g", "~o", "~r", "~i", "~t", "~m", "~o", "~v", " ", "~i", " ", "~b", "~i", "~z", "~n", "~e", "~s", "-", "~l", "~o", "~g", "~i", "~k", "~i">>,
          <<"~S", "~l", "~e", "~d", "~u", "~j", " ", "~p", "~r", "~i", "~n", "~c", "~i", "~p", "~a", "~m", " ", "S", "O", "L", "I", "D", " ", "~p", "~r", "~i", " ", "~r", "~a", "~z", "~r", "~a", "~b", "~o", "~t", "~k", "~e">>,
          <<"~I", "~z", "~b", "~e", "~g", "~a", "~j", " ", "~d", "~u", "~b", "~l", "~i", "~r", "~o", "~v", "~a", "~n", "~i", "~ya", " ", "~k", "~o", "~d", "~a", " ", "(", "D", "R", "Y", " ", "~p", "~r", "~i", "~n", "~c", "~i", "~p", ")">>,
          <<"~I", "~s", "~p", "~o", "~l", "~soft", "~z", "~u", "~j", " ", "~k", "~o", "~n", "~s", "~t", "~a", "~n", "~t", "~y", " ", "~v", "~m", "~e", "~s", "~t", "~o", " ", "~m", "~a", "~g", "~i", "~ch", "~e", "~s", "~k", "~i", "~h", " ", "~ch", "~i", "~s", "~e", "~l">> >>) @@
    ("security" :>
        << <<"~N", "~i", "~k", "~o", "~g", "~d", "~a", " ", "~n", "~e", " ", "~h", "~r", "~a", "~n", "~i", " ", "~p", "~a", "~r", "~o", "~l", "~i", " ", "~i", " ", "~s", "~e", "~k", "~r", "~e", "~t", "~n", "~y", "~e", " ", "~k", "~l", "~yu", "~ch", "~i", " ", "~v", " ", "~k", "~o", "~d", "~e">>,
          <<"~V", "~s", "~e", "~g", "~d", "~a", " ", "~v", "~a", "~l", "~i", "~d", "~i", "~r", "~u", "~j", " ", "~p", "~o", "~l", "~soft", "~z", "~o", "~v", "~a", "~t", "~e", "~l", "~soft", "~s", "~k", "~i", "~j", " ", "~v", "~v", "~o", "~d">>,
          <<"~I", "~s", "~p", "~o", "~l", "~soft", "~z", "~u", "~j", " ", "H", "T", "T", "P", "S", " ", "~d", "~l", "~ya", " ", "~v", "~s", "~e", "~h", " ", "~v", "~n", "~e", "~sh", "~n", "~i", "~h", " ", "~z", "~a", "~p", "~r", "~o", "~s", "~o", "~v">>,
          <<"~L", "~o", "~g", "~i", "~r", "~u", "~j", " ", "~s", "~o", "~b", "~y", "~t", "~i", "~ya", " ", "~b", "~e", "~z", "~o", "~p", "~a", "~s", "~n", "~o", "~s", "~t", "~i">>,
          <<"~P", "~r", "~i", "~m", "~e", "~n", "~ya", "~j", " ", "~p", "~r", "~i", "~n", "~c", "~i", "~p", " ", "~m", "~i", "~n", "~i", "~m", "~a", "~l", "~soft", "~n", "~y", "~h", " ", "~p", "~r", "~i", "~v", "~i", "~l", "~e", "~g", "~i", "~j">> >>) @@
    ("performance" :>
        << <<"~O", "~p", "~t", "~i", "~m", "~i", "~z", "~i", "~r", "~u", "~j", " ", "~c", "~i", "~k", "~l", "~y", " ", "~i", " ", "~i", "~z", "~b", "~e", "~g", "~a", "~j", " ", "~i", "~z", "~l", "~i", "~sh", "~n", "~e", "~j", " ", "~v", "~l", "~o", "~zh", "~e", "~n", "~n", "~o", "~s", "~t", "~i">>,
          <<"~I", "~s", "~p", "~o", "~l", "~soft", "~z", "~u", "~j", " ", "~k", "~e", "~sh", "~i", "~r", "~o", "~v", "~a", "~n", "~i", "~e", " ", "~d", "~l", "~ya", " ", "~d", "~o", "~r", "~o", "~g", "~o", "~s", "~t", "~o", "~ya", "~sch", "~i", "~h", " ", "~o", "~p", "~e", "~r", "~a", "~c", "~i", "~j">>,
          <<"~P", "~r", "~i", "~m", "~e", "~n", "~ya", "~j", " ", "~l", "~e", "~n", "~i", "~v", "~u", "~yu", " ", "~z", "~a", "~g", "~r", "~u", "~z", "~k", "~u", " ", "~g", "~d", "~e", " ", "~eh", "~t", "~o", " ", "~v", "~o", "~z", "~m", "~o", "~zh", "~n", "~o">>,
          <<"~M", "~i", "~n", "~i", "~m", "~i", "~z", "~i", "~r", "~u", "~j", " ", "~k", "~o", "~l", "~i", "~ch", "~e", "~s", "~t", "~v", "~o", " ", "~z", "~a", "~p", "~r", "~o", "~s", "~o", "~v", " ", "~k", " ", "~b", "~a", "~z", "~e", " ", "~d", "~a", "~n", "~n", "~y", "~h">>,
          <<"~P", "~r", "~o", "~f", "~i", "~l", "~i", "~r", "~u", "~j", " ", "~k", "~o", "~d", " ", "~p", "~r", "~i", " ", "~p", "~o", "~d", "~o", "~z", "~r", "~e", "~n", "~i", "~i", " ", "~n", "~a", " ", "~u", "~z", "~k", "~i", "~e", " ", "~m", "~e", "~s", "~t", "~a">> >>) @@
    ("testing" :>
        << <<"~P", "~i", "~sh", "~i", " ", "u", "n", "i", "t", "-", "~t", "~e", "~s", "~t", "~y", " ", "~d", "~l", "~ya", " ", "~v", "~s", "~e", "~h", " ", "~p", "~u", "~b", "~l", "~i", "~ch", "~n", "~y", "~h", " ", "~m", "~e", "~t", "~o", "~d", "~o", "~v">>,
          <<"~S", "~t", "~r", "~e", "~m", "~i", "~s", "~soft", " ", "~k", " ", "~p", "~o", "~k", "~r", "~y", "~t", "~i", "~yu", " ", "~t", "~e", "~s", "~t", "~a", "~m", "~i", " ", "~n", "~e", " ", "~m", "~e", "~n", "~e", "~e", " ", "8", "0", "%">>,
          <<"~I", "~s", "~p", "~o", "~l", "~soft", "~z", "~u", "~j", " ", "~m", "~o", "~k", "~i", " ", "~d", "~l", "~ya", " ", "~v", "~n", "~e", "~sh", "~n", "~i", "~h", " ", "~z", "~a", "~v", "~i", "~s", "~i", "~m", "~o", "~s", "~t", "~e", "~j">>,
          <<"~G", "~r", "~u", "~p", "~p", "~i", "~r", "~u", "~j", " ", "~t", "~e", "~s", "~t", "~y", " ", "~l", "~o", "~g", "~i", "~ch", "~e", "~s", "~k", "~i", " ", "~p", "~o", " ", "~m", "~o", "~d", "~u", "~l", "~ya", "~m">>,
          <<"~T", "~e", "~s", "~t", "~i", "~r", "~u", "~j", " ", "~g", "~r", "~a", "~n", "~i", "~ch", "~n", "~y", "~e", " ", "~s", "~l", "~u", "~ch", "~a", "~i", " ", "~i", " ", "~o", "~sh", "~i", "~b", "~k", "~i">> >>) @@
    ("documentation" :>
        << <<"~P", "~i", "~sh", "~i", " ", "d", "o", "c", "s", "t", "r", "i", "n", "g", "s", " ", "~d", "~l", "~ya", " ", "~v", "~s", "~e", "~h", " ", "~p", "~u", "~b", "~l", "~i", "~ch", "~n", "~y", "~h", " ", "~f", "~u", "~n", "~k", "~c", "~i", "~j", " ", "~i", " ", "~k", "~l", "~a", "~s", "~s", "~o", "~v">>,
          <<"~O", "~b", "~n", "~o", "~v", "~l", "~ya", "~j", " ", "R", "E", "A", "D", "M", "E", ".", "m", "d", " ", "~p", "~r", "~i", " ", "~z", "~n", "~a", "~ch", "~i", "~m", "~y", "~h", " ", "~i", "~z", "~m", "~e", "~n", "~e", "~n", "~i", "~ya", "~h">>,
          <<"~D", "~o", "~k", "~u", "~m", "~e", "~n", "~t", "~i", "~r", "~u", "~j", " ", "A", "P", "I", " ", "e", "n", "d", "p", "o", "i", "n", "t", "s", " ", "~s", " ", "~p", "~r", "~i", "~m", "~e", "~r", "~a", "~m", "~i">>,
          <<"~V", "~e", "~d", "~i", " ", "c", "h", "a", "n", "g", "e", "l", "o", "g", " ", "~d", "~l", "~ya", " ", "~r", "~e", "~l", "~i", "~z", "~o", "~v">>,
          <<"~D", "~o", "~b", "~a", "~v", "~l", "~ya", "~j", " ", "~i", "~n", "~l", "~a", "~j", "~n", "-", "~k", "~o", "~m", "~m", "~e", "~n", "~t", "~a", "~r", "~i", "~i", " ", "~d", "~l", "~ya", " ", "~n", "~e", "~o", "~ch", "~e", "~v", "~i", "~d", "~n", "~o", "~g", "~o", " ", "~k", "~o", "~d", "~a">> >>)

\* self.language_specific_rules (rules_generator.py:56-98); the texts, letter by letter:
\*   python:
\*     Следуй PEP 8 для стиля кода
\*     Используй type hints для всех функций
\*     Применяй list/dict comprehensions где уместно
\*     Обрабатывай исключения специфично, избегай голого except
\*     Используй f-strings для форматирования строк
\*     Применяй dataclasses для структур данных
\*     Используй pathlib вместо os.path для работы с путями
\*   javascript:
\*     Используй const/let вместо var
\*     Применяй строгий режим 'use strict'
\*     Используй async/await вместо промисов где возможно
\*     Применяй деструктуризацию объектов и массивов
\*     Используй модульную систему ES6
\*     Проверяй типы с помощью TypeScript или JSDoc
\*   typescript:
\*     Всегда указывай типы для параметров и возвращаемых значений
\*     Используй интерфейсы для описания структур данных
\*     Применяй generic типы для переиспользуемого кода
\*     Избегай any типа, используй unknown вместо него
\*     Используй enum для перечислений
\*     Применяй strict режим в tsconfig.json
\*   java:
\*     Следуй соглашениям по именованию Java
\*     Используй аннотации для метаданных
\*     Применяй Stream API для обработки коллекций
\*     Используй Optional для значений, которые могут быть null
\*     Следуй принципам объектно-ориентированного программирования
\*     Применяй паттерн Builder для сложных объектов
\*   rust:
\*     Используй Result<T, E> для обработки ошибок
\*     Применяй match для pattern matching
\*     Избегай паники (panic!) в библиотечном коде
\*     Используй References и Borrowing правильно
\*     Применяй трейты для полиморфизма
\*     Следуй принципам zero-cost abstractions
language_specific_rules ==
    (<<"p", "y", "t", "h", "o", "n">> :>
        << <<"~S", "~l", "~e", "~d", "~u", "~j", " ", "P", "E", "P", " ", "8", " ", "~d", "~l", "~ya", " ", "~s", "~t", "~i", "~l", "~ya", " ", "~k", "~o", "~d", "~a">>,
          <<"~I", "~s", "~p", "~o", "~l", "~soft", "~z", "~u", "~j", " ", "t", "y", "p", "e", " ", "h", "i", "n", "t", "s", " ", "~d", "~l", "~ya", " ", "~v", "~s", "~e", "~h", " ", "~f", "~u", "~n", "~k", "~c", "~i", "~j">>,
          <<"~P", "~r", "~i", "~m", "~e", "~n", "~ya", "~j", " ", "l", "i", "s", "t", "/", "d", "i", "c", "t", " ", "c", "o", "m", "p", "r", "e", "h", "e", "n", "s", "i", "o", "n", "s", " ", "~g", "~d", "~e", " ", "~u", "~m", "~e", "~s", "~t", "~n", "~o">>,
          <<"~O", "~b", "~r", "~a", "~b", "~a", "~t", "~y", "~v", "~a", "~j", " ", "~i", "~s", "~k", "~l", "~yu", "~ch", "~e", "~n", "~i", "~ya", " ", "~s", "~p", "~e", "~c", "~i", "~f", "~i", "~ch", "~n", "~o", ",", " ", "~i", "~z", "~b", "~e", "~g", "~a", "~j", " ", "~g", "~o", "~l", "~o", "~g", "~o", " ", "e", "x", "c", "e", "p", "t">>,
          <<"~I", "~s", "~p", "~o", "~l", "~soft", "~z", "~u", "~j", " ", "f", "-", "s", "t", "r", "i", "n", "g", "s", " ", "~d", "~l", "~ya", " ", "~f", "~o", "~r", "~m", "~a", "~t", "~i", "~r", "~o", "~v", "~a", "~n", "~i", "~ya", " ", "~s", "~t", "~r", "~o", "~k">>,
          <<"~P", "~r", "~i", "~m", "~e", "~n", "~ya", "~j", " ", "d", "a", "t", "a", "c", "l", "a", "s", "s", "e", "s", " ", "~d", "~l", "~ya", " ", "~s", "~t", "~r", "~u", "~k", "~t", "~u", "~r", " ", "~d", "~a", "~n", "~n", "~y", "~h">>,
          <<"~I", "~s", "~p", "~o", "~l", "~soft", "~z", "~u", "~j", " ", "p", "a", "t", "h", "l", "i", "b", " ", "~v", "~m", "~e", "~s", "~t", "~o", " ", "o", "s", ".", "p", "a", "t", "h", " ", "~d", "~l", "~ya", " ", "~r", "~a", "~b", "~o", "~t", "~y", " ", "~s", " ", "~p", "~u", "~t", "~ya", "~m", "~i">> >>) @@
    (<<"j", "a", "v", "a", "s", "c", "r", "i", "p", "t">> :>
        << <<"~I", "~s", "~p", "~o", "~l", "~soft", "~z", "~u", "~j", " ", "c", "o", "n", "s", "t", "/", "l", "e", "t", " ", "~v", "~m", "~e", "~s", "~t", "~o", " ", "v", "a", "r">>,
          <<"~P", "~r", "~i", "~m", "~e", "~n", "~ya", "~j", " ", "~s", "~t", "~r", "~o", "~g", "~i", "~j", " ", "~r", "~e", "~zh", "~i", "~m", " ", "'", "u", "s", "e", " ", "s", "t", "r", "i", "c", "t", "'">>,
          <<"~I", "~s", "~p", "~o", "~l", "~soft", "~z", "~u", "~j", " ", "a", "s", "y", "n", "c", "/", "a", "w", "a", "i", "t", " ", "~v", "~m", "~e", "~s", "~t", "~o", " ", "~p", "~r", "~o", "~m", "~i", "~s", "~o", "~v", " ", "~g", "~d", "~e", " ", "~v", "~o", "~z", "~m", "~o", "~zh", "~n", "~o">>,
          <<"~P", "~r", "~i", "~m", "~e", "~n", "~ya", "~j", " ", "~d", "~e", "~s", "~t", "~r", "~u", "~k", "~t", "~u", "~r", "~i", "~z", "~a", "~c", "~i", "~yu", " ", "~o", "~b", "~hard", "~e", "~k", "~t", "~o", "~v", " ", "~i", " ", "~m", "~a", "~s", "~s", "~i", "~v", "~o", "~v">>,
          <<"~I", "~s", "~p", "~o", "~l", "~soft", "~z", "~u", "~j", " ", "~m", "~o", "~d", "~u", "~l", "~soft", "~n", "~u", "~yu", " ", "~s", "~i", "~s", "~t", "~e", "~m", "~u", " ", "E", "S", "6">>,
          <<"~P", "~r", "~o", "~v", "~e", "~r", "~ya", "~j", " ", "~t", "~i", "~p", "~y", " ", "~s", " ", "~p", "~o", "~m", "~o", "~sch", "~soft", "~yu", " ", "T", "y", "p", "e", "S", "c", "r", "i", "p", "t", " ", "~i", "~l", "~i", " ", "J", "S", "D", "o", "c">> >>) @@
    (<<"t", "y", "p", "e", "s", "c", "r", "i", "p", "t">> :>
        << <<"~V", "~s", "~e", "~g", "~d", "~a", " ", "~u", "~k", "~a", "~z", "~y", "~v", "~a", "~j", " ", "~t", "~i", "~p", "~y", " ", "~d", "~l", "~ya", " ", "~p", "~a", "~r", "~a", "~m", "~e", "~t", "~r", "~o", "~v", " ", "~i", " ", "~v", "~o", "~z", "~v", "~r", "~a", "~sch", "~a", "~e", "~m", "~y", "~h", " ", "~z", "~n", "~a", "~ch", "~e", "~n", "~i", "~j">>,
          <<"~I", "~s", "~p", "~o", "~l", "~soft", "~z", "~u", "~j", " ", "~i", "~n", "~t", "~e", "~r", "~f", "~e", "~j", "~s", "~y", " ", "~d", "~l", "~ya", " ", "~o", "~p", "~i", "~s", "~a", "~n", "~i", "~ya", " ", "~s", "~t", "~r", "~u", "~k", "~t", "~u", "~r", " ", "~d", "~a", "~n", "~n", "~y", "~h">>,
          <<"~P", "~r", "~i", "~m", "~e", "~n", "~ya", "~j", " ", "g", "e", "n", "e", "r", "i", "c", " ", "~t", "~i", "~p", "~y", " ", "~d", "~l", "~ya", " ", "~p", "~e", "~r", "~e", "~i", "~s", "~p", "~o", "~l", "~soft", "~z", "~u", "~e", "~m", "~o", "~g", "~o", " ", "~k", "~o", "~d", "~a">>,
          <<"~I", "~z", "~b", "~e", "~g", "~a", "~j", " ", "a", "n", "y", " ", "~t", "~i", "~p", "~a", ",", " ", "~i", "~s", "~p", "~o", "~l", "~soft", "~z", "~u", "~j", " ", "u", "n", "k", "n", "o", "w", "n", " ", "~v", "~m", "~e", "~s", "~t", "~o", " ", "~n", "~e", "~g", "~o">>,
          <<"~I", "~s", "~p", "~o", "~l", "~soft", "~z", "~u", "~j", " ", "e", "n", "u", "m", " ", "~d", "~l", "~ya", " ", "~p", "~e", "~r", "~e", "~ch", "~i", "~s", "~l", "~e", "~n", "~i", "~j">>,
          <<"~P", "~r", "~i", "~m", "~e", "~n", "~ya", "~j", " ", "s", "t", "r", "i", "c", "t", " ", "~r", "~e", "~zh", "~i", "~m", " ", "~v", " ", "t", "s", "c", "o", "n", "f", "i", "g", ".", "j", "s", "o", "n">> >>) @@
    (<<"j", "a", "v", "a">> :>
        << <<"~S", "~l", "~e", "~d", "~u", "~j", " ", "~s", "~o", "~g", "~l", "~a", "~sh", "~e", "~n", "~i", "~ya", "~m", " ", "~p", "~o", " ", "~i", "~m", "~e", "~n", "~o", "~v", "~a", "~n", "~i", "~yu", " ", "J", "a", "v", "a">>,
          <<"~I", "~s", "~p", "~o", "~l", "~soft", "~z", "~u", "~j", " ", "~a", "~n", "~n", "~o", "~t", "~a", "~c", "~i", "~i", " ", "~d", "~l", "~ya", " ", "~m", "~e", "~t", "~a", "~d", "~a", "~n", "~n", "~y", "~h">>,
          <<"~P", "~r", "~i", "~m", "~e", "~n", "~ya", "~j", " ", "S", "t", "r", "e", "a", "m", " ", "A", "P", "I", " ", "~d", "~l", "~ya", " ", "~o", "~b", "~r", "~a", "~b", "~o", "~t", "~k", "~i", " ", "~k", "~o", "~l", "~l", "~e", "~k", "~c", "~i", "~j">>,
          <<"~I", "~s", "~p", "~o", "~l", "~soft", "~z", "~u", "~j", " ", "O", "p", "t", "i", "o", "n", "a", "l", " ", "~d", "~l", "~ya", " ", "~z", "~n", "~a", "~ch", "~e", "~n", "~i", "~j", ",", " ", "~k", "~o", "~t", "~o", "~r", "~y", "~e", " ", "~m", "~o", "~g", "~u", "~t", " ", "~b", "~y", "~t", "~soft", " ", "n", "u", "l", "l">>,
          <<"~S", "~l", "~e", "~d", "~u", "~j", " ", "~p", "~r", "~i", "~n", "~c", "~i", "~p", "~a", "~m", " ", "~o", "~b", "~hard", "~e", "~k", "~t", "~n", "~o", "-", "~o", "~r", "~i", "~e", "~n", "~t", "~i", "~r", "~o", "~v", "~a", "~n", "~n", "~o", "~g", "~o", " ", "~p", "~r", "~o", "~g", "~r", "~a", "~m", "~m", "~i", "~r", "~o", "~v", "~a", "~n", "~i", "~ya">>,
          <<"~P", "~r", "~i", "~m", "~e", "~n", "~ya", "~j", " ", "~p", "~a", "~t", "~t", "~e", "~r", "~n", " ", "B", "u", "i", "l", "d", "e", "r", " ", "~d", "~l", "~ya", " ", "~s", "~l", "~o", "~zh", "~n", "~y", "~h", " ", "~o", "~b", "~hard", "~e", "~k", "~t", "~o", "~v">> >>) @@
    (<<"r", "u", "s", "t">> :>
        << <<"~I", "~s", "~p", "~o", "~l", "~soft", "~z", "~u", "~j", " ", "R", "e", "s", "u", "l", "t", "<", "T", ",", " ", "E", ">", " ", "~d", "~l", "~ya", " ", "~o", "~b", "~r", "~a", "~b", "~o", "~t", "~k", "~i", " ", "~o", "~sh", "~i", "~b", "~o", "~k">>,
          <<"~P", "~r", "~i", "~m", "~e", "~n", "~ya", "~j", " ", "m", "a", "t", "c", "h", " ", "~d", "~l", "~ya", " ", "p", "a", "t", "t", "e", "r", "n", " ", "m", "a", "t", "c", "h", "i", "n", "g">>,
          <<"~I", "~z", "~b", "~e", "~g", "~a", "~j", " ", "~p", "~a", "~n", "~i", "~k", "~i", " ", "(", "p", "a", "n", "i", "c", "!", ")", " ", "~v", " ", "~b", "~i", "~b", "~l", "~i", "~o", "~t", "~e", "~ch", "~n", "~o", "~m", " ", "~k", "~o", "~d", "~e">>,
          <<"~I", "~s", "~p", "~o", "~l", "~soft", "~z", "~u", "~j", " ", "R", "e", "f", "e", "r", "e", "n", "c", "e", "s", " ", "~i", " ", "B", "o", "r", "r", "o", "w", "i", "n", "g", " ", "~p", "~r", "~a", "~v", "~i", "~l", "~soft", "~n", "~o">>,
          <<"~P", "~r", "~i", "~m", "~e", "~n", "~ya", "~j", " ", "~t", "~r", "~e", "~j", "~t", "~y", " ", "~d", "~l", "~ya", " ", "~p", "~o", "~l", "~i", "~m", "~o", "~r", "~f", "~i", "~z", "~m", "~a">>,
          <<"~S", "~l", "~e", "~d", "~u", "~j", " ", "~p", "~r", "~i", "~n", "~c", "~i", "~p", "~a", "~m", " ", "z", "e", "r", "o", "-", "c", "o", "s", "t", " ", "a", "b", "s", "t", "r", "a", "c", "t", "i", "o", "n", "s">> >>)

\* self.framework_rules (rules_generator.py:101-123); the texts, letter by letter:
\*   react:
\*     Используй функциональные компоненты с хуками
\*     Применяй useCallback и useMemo для оптимизации
\*     Следуй принципу единственной ответственности для компонентов
\*     Используй prop-types или TypeScript для типизации
\*     Применяй условный рендеринг осознанно
\*   django:
\*     Используй Django ORM вместо сырого SQL
\*     Применяй миграции для изменения схемы БД
\*     Используй Django Forms для валидации
\*     Применяй middleware для кросс-функциональных задач
\*     Следуй MTV паттерну Django
\*   flask:
\*     Используй Blueprints для организации приложения
\*     Применяй декораторы для авторизации
\*     Используй Flask-SQLAlchemy для работы с БД
\*     Валидируй данные с помощью Marshmallow или WTForms
\*     Применяй application factory pattern
framework_rules ==
    (<<"r", "e", "a", "c", "t">> :>
        << <<"~I", "~s", "~p", "~o", "~l", "~soft", "~z", "~u", "~j", " ", "~f", "~u", "~n", "~k", "~c", "~i", "~o", "~n", "~a", "~l", "~soft", "~n", "~y", "~e", " ", "~k", "~o", "~m", "~p", "~o", "~n", "~e", "~n", "~t", "~y", " ", "~s", " ", "~h", "~u", "~k", "~a", "~m", "~i">>,
          <<"~P", "~r", "~i", "~m", "~e", "~n", "~ya", "~j", " ", "u", "s", "e", "C", "a", "l", "l", "b", "a", "c", "k", " ", "~i", " ", "u", "s", "e", "M", "e", "m", "o", " ", "~d", "~l", "~ya", " ", "~o", "~p", "~t", "~i", "~m", "~i", "~z", "~a", "~c", "~i", "~i">>,
          <<"~S", "~l", "~e", "~d", "~u", "~j", " ", "~p", "~r", "~i", "~n", "~c", "~i", "~p", "~u", " ", "~e", "~d", "~i", "~n", "~s", "~t", "~v", "~e", "~n", "~n", "~o", "~j", " ", "~o", "~t", "~v", "~e", "~t", "~s", "~t", "~v", "~e", "~n", "~n", "~o", "~s", "~t", "~i", " ", "~d", "~l", "~ya", " ", "~k", "~o", "~m", "~p", "~o", "~n", "~e", "~n", "~t", "~o", "~v">>,
          <<"~I", "~s", "~p", "~o", "~l", "~soft", "~z", "~u", "~j", " ", "p", "r", "o", "p", "-", "t", "y", "p", "e", "s", " ", "~i", "~l", "~i", " ", "T", "y", "p", "e", "S", "c", "r", "i", "p", "t", " ", "~d", "~l", "~ya", " ", "~t", "~i", "~p", "~i", "~z", "~a", "~c", "~i", "~i">>,
          <<"~P", "~r", "~i", "~m", "~e", "~n", "~ya", "~j", " ", "~u", "~s", "~l", "~o", "~v", "~n", "~y", "~j", " ", "~r", "~e", "~n", "~d", "~e", "~r", "~i", "~n", "~g", " ", "~o", "~s", "~o", "~z", "~n", "~a", "~n", "~n", "~o">> >>) @@
    (<<"d", "j", "a", "n", "g", "o">> :>
        << <<"~I", "~s", "~p", "~o", "~l", "~soft", "~z", "~u", "~j", " ", "D", "j", "a", "n", "g", "o", " ", "O", "R", "M", " ", "~v", "~m", "~e", "~s", "~t", "~o", " ", "~s", "~y", "~r", "~o", "~g", "~o", " ", "S", "Q", "L">>,
          <<"~P", "~r", "~i", "~m", "~e", "~n", "~ya", "~j", " ", "~m", "~i", "~g", "~r", "~a", "~c", "~i", "~i", " ", "~d", "~l", "~ya", " ", "~i", "~z", "~m", "~e", "~n", "~e", "~n", "~i", "~ya", " ", "~s", "~h", "~e", "~m", "~y", " ", "~B", "~D">>,
          <<"~I", "~s", "~p", "~o", "~l", "~soft", "~z", "~u", "~j", " ", "D", "j", "a", "n", "g", "o", " ", "F", "o", "r", "m", "s", " ", "~d", "~l", "~ya", " ", "~v", "~a", "~l", "~i", "~d", "~a", "~c", "~i", "~i">>,
          <<"~P", "~r", "~i", "~m", "~e", "~n", "~ya", "~j", " ", "m", "i", "d", "d", "l", "e", "w", "a", "r", "e", " ", "~d", "~l", "~ya", " ", "~k", "~r", "~o", "~s", "~s", "-", "~f", "~u", "~n", "~k", "~c", "~i", "~o", "~n", "~a", "~l", "~soft", "~n", "~y", "~h", " ", "~z", "~a", "~d", "~a", "~ch">>,
          <<"~S", "~l", "~e", "~d", "~u", "~j", " ", "M", "T", "V", " ", "~p", "~a", "~t", "~t", "~e", "~r", "~n", "~u", " ", "D", "j", "a", "n", "g", "o">> >>) @@
    (<<"f", "l", "a", "s", "k">> :>
        << <<"~I", "~s", "~p", "~o", "~l", "~soft", "~z", "~u", "~j", " ", "B", "l", "u", "e", "p", "r", "i", "n", "t", "s", " ", "~d", "~l", "~ya", " ", "~o", "~r", "~g", "~a", "~n", "~i", "~z", "~a", "~c", "~i", "~i", " ", "~p", "~r", "~i", "~l", "~o", "~zh", "~e", "~n", "~i", "~ya">>,
          <<"~P", "~r", "~i", "~m", "~e", "~n", "~ya", "~j", " ", "~d", "~e", "~k", "~o", "~r", "~a", "~t", "~o", "~r", "~y", " ", "~d", "~l", "~ya", " ", "~a", "~v", "~t", "~o", "~r", "~i", "~z", "~a", "~c", "~i", "~i">>,
          <<"~I", "~s", "~p", "~o", "~l", "~soft", "~z", "~u", "~j", " ", "F", "l", "a", "s", "k", "-", "S", "Q", "L", "A", "l", "c", "h", "e", "m", "y", " ", "~d", "~l", "~ya", " ", "~r", "~a", "~b", "~o", "~t", "~y", " ", "~s", " ", "~B", "~D">>,
          <<"~V", "~a", "~l", "~i", "~d", "~i", "~r", "~u", "~j", " ", "~d", "~a", "~n", "~n", "~y", "~e", " ", "~s", " ", "~p", "~o", "~m", "~o", "~sch", "~soft", "~yu", " ", "M", "a", "r", "s", "h", "m", "a", "l", "l", "o", "w", " ", "~i", "~l", "~i", " ", "W", "T", "F", "o", "r", "m", "s">>,
          <<"~P", "~r", "~i", "~m", "~e", "~n", "~ya", "~j", " ", "a", "p", "p", "l", "i", "c", "a", "t", "i", "o", "n", " ", "f", "a", "c", "t", "o", "r", "y", " ", "p", "a", "t", "t", "e", "r", "n">> >>)


EmptyDict == [k \in {} |-> 0]

\* keyword in text
Contains(text, keyword) ==
    \E i \in 1..(Len(text) - Len(keyword) + 1) :
        \A j \in 1..Len(keyword) : text[i + j - 1] = keyword[j]

\* any(keyword in text for keyword in keywords)
AnyKeyword(text, keywords) == \E k \in 1..Len(keywords) : Contains(text, keywords[k])

\* text.startswith(prefix)
StartsWith(text, prefix) ==
    Len(text) >= Len(prefix) /\ SubSeq(text, 1, Len(prefix)) = prefix

\* text.split(sep) for a separator of one letter
\* the parts of the text from position st.i on: a part ends before the next
\* separator, or with the text
RECURSIVE SplitFrom(_)
SplitFrom(st) ==
    LET stop == CHOOSE i \in st.i..(Len(st.text) + 1) :
                    /\ i = Len(st.text) + 1 \/ st.text[i] = st.sep
                    /\ \A j \in st.i..(i - 1) : st.text[j] # st.sep
    IN  IF stop > Len(st.text)
        THEN Append(st.parts, SubSeq(st.text, st.i, Len(st.text)))
        ELSE SplitFrom([text |-> st.text, sep |-> st.sep, i |-> stop + 1,
                        parts |-> Append(st.parts, SubSeq(st.text, st.i, stop - 1))])

Split(text, sep) == SplitFrom([text |-> text, sep |-> sep, i |-> 1, parts |-> <<>>])

\* sep.join(parts)
RECURSIVE JoinLoop(_)
JoinLoop(st) ==
    IF st.i > Len(st.parts) THEN st.text
    ELSE JoinLoop([parts |-> st.parts, sep |-> st.sep, i |-> st.i + 1,
                   text |-> IF st.i = 1 THEN st.parts[1]
                            ELSE st.text \o st.sep \o st.parts[st.i]])

Join(sep, parts) == JoinLoop([parts |-> parts, sep |-> sep, i |-> 1, text |-> <<>>])

\* the keyword lists of rule_priority: security, пароль, ключ, auth; test, тест,
\* качество; performance, производительность, оптимиз; style, стиль, комментар,
\* документ
PriorityKeywords ==
    << << <<"s", "e", "c", "u", "r", "i", "t", "y">>, <<"~p", "~a", "~r", "~o", "~l", "~soft">>, <<"~k", "~l", "~yu", "~ch">>, <<"a", "u", "t", "h">> >>,
       << <<"t", "e", "s", "t">>, <<"~t", "~e", "~s", "~t">>, <<"~k", "~a", "~ch", "~e", "~s", "~t", "~v", "~o">> >>,
       << <<"p", "e", "r", "f", "o", "r", "m", "a", "n", "c", "e">>, <<"~p", "~r", "~o", "~i", "~z", "~v", "~o", "~d", "~i", "~t", "~e", "~l", "~soft", "~n", "~o", "~s", "~t", "~soft">>, <<"~o", "~p", "~t", "~i", "~m", "~i", "~z">> >>,
       << <<"s", "t", "y", "l", "e">>, <<"~s", "~t", "~i", "~l", "~soft">>, <<"~k", "~o", "~m", "~m", "~e", "~n", "~t", "~a", "~r">>, <<"~d", "~o", "~k", "~u", "~m", "~e", "~n", "~t">> >> >>

RulePriorityOf(rule_lower) ==
    IF AnyKeyword(rule_lower, PriorityKeywords[1]) THEN 1
    ELSE IF AnyKeyword(rule_lower, PriorityKeywords[2]) THEN 2
    ELSE IF AnyKeyword(rule_lower, PriorityKeywords[3]) THEN 3
    ELSE IF AnyKeyword(rule_lower, PriorityKeywords[4]) THEN 4
    ELSE 5

rule_priority(rule) == RulePriorityOf(Lower(rule))

\* sorted(rules, key=rule_priority): the key is computed once for each rule and the
\* sort is stable, so a rule goes behind every rule already placed whose key is not
\* larger than its own
RECURSIVE SortedLoop(_)
SortedLoop(st) ==
    IF st.i > Len(st.rules) THEN [k \in 1..Len(st.out) |-> st.rules[st.out[k]]]
    ELSE LET n == Cardinality({k \in 1..Len(st.out) : st.keys[st.out[k]] <= st.keys[st.i]})
         IN  SortedLoop([rules |-> st.rules, keys |-> st.keys, i |-> st.i + 1,
                         out |-> SubSeq(st.out, 1, n) \o <<st.i>>
                                 \o SubSeq(st.out, n + 1, Len(st.out))])

\* a variant of the sort that puts a rule in front of the rules of the same key
RECURSIVE SortedLoopTiesReversed(_)
SortedLoopTiesReversed(st) ==
    IF st.i > Len(st.rules) THEN [k \in 1..Len(st.out) |-> st.rules[st.out[k]]]
    ELSE LET n == Cardinality({k \in 1..Len(st.out) : st.keys[st.out[k]] < st.keys[st.i]})
         IN  SortedLoopTiesReversed([rules |-> st.rules, keys |-> st.keys, i |-> st.i + 1,
                         out |-> SubSeq(st.out, 1, n) \o <<st.i>>
                                 \o SubSeq(st.out, n + 1, Len(st.out))])

\* the key of each rule, computed once
SortKeys(rule_list) ==
    SubSeq([k \in 1..Len(rule_list) |-> rule_priority(rule_list[k])], 1, Len(rule_list))

PrioritizeTiesReversed(rule_list) ==
    SortedLoopTiesReversed([rules |-> rule_list, i |-> 1, out |-> <<>>,
                            keys |-> SortKeys(rule_list)])

_prioritize_rules(rule_list) ==
    SortedLoop([rules |-> rule_list, i |-> 1, out |-> <<>>, keys |-> SortKeys(rule_list)])

\* the categories of _format_rules_file in the order of the dict: Безопасность,
\* Качество кода, Производительность, Тестирование, Документация, Общие правила
CategoryNames ==
    << <<"~B", "~e", "~z", "~o", "~p", "~a", "~s", "~n", "~o", "~s", "~t", "~soft">>, <<"~K", "~a", "~ch", "~e", "~s", "~t", "~v", "~o", " ", "~k", "~o", "~d", "~a">>, <<"~P", "~r", "~o", "~i", "~z", "~v", "~o", "~d", "~i", "~t", "~e", "~l", "~soft", "~n", "~o", "~s", "~t", "~soft">>,
       <<"~T", "~e", "~s", "~t", "~i", "~r", "~o", "~v", "~a", "~n", "~i", "~e">>, <<"~D", "~o", "~k", "~u", "~m", "~e", "~n", "~t", "~a", "~c", "~i", "~ya">>, <<"~O", "~b", "~sch", "~i", "~e", " ", "~p", "~r", "~a", "~v", "~i", "~l", "~a">> >>

\* the keyword lists of the if/elif chain of lines 339-350, each with the index of
\* its category: security, безопас, пароль, ключ; test, тест; performance,
\* производительность, оптимиз; doc, документ, комментар; style, стиль, format,
\* качество
CategoryKeywords ==
    << [category |-> 1, keywords |-> << <<"s", "e", "c", "u", "r", "i", "t", "y">>, <<"~b", "~e", "~z", "~o", "~p", "~a", "~s">>, <<"~p", "~a", "~r", "~o", "~l", "~soft">>, <<"~k", "~l", "~yu", "~ch">> >>],
       [category |-> 4, keywords |-> << <<"t", "e", "s", "t">>, <<"~t", "~e", "~s", "~t">> >>],
       [category |-> 3, keywords |-> << <<"p", "e", "r", "f", "o", "r", "m", "a", "n", "c", "e">>, <<"~p", "~r", "~o", "~i", "~z", "~v", "~o", "~d", "~i", "~t", "~e", "~l", "~soft", "~n", "~o", "~s", "~t", "~soft">>, <<"~o", "~p", "~t", "~i", "~m", "~i", "~z">> >>],
       [category |-> 5, keywords |-> << <<"d", "o", "c">>, <<"~d", "~o", "~k", "~u", "~m", "~e", "~n", "~t">>, <<"~k", "~o", "~m", "~m", "~e", "~n", "~t", "~a", "~r">> >>],
       [category |-> 2, keywords |-> << <<"s", "t", "y", "l", "e">>, <<"~s", "~t", "~i", "~l", "~soft">>, <<"f", "o", "r", "m", "a", "t">>, <<"~k", "~a", "~ch", "~e", "~s", "~t", "~v", "~o">> >>] >>

CategoryOf(rule_lower) ==
    IF AnyKeyword(rule_lower, CategoryKeywords[1].keywords) THEN CategoryKeywords[1].category
    ELSE IF AnyKeyword(rule_lower, CategoryKeywords[2].keywords) THEN CategoryKeywords[2].category
    ELSE IF AnyKeyword(rule_lower, CategoryKeywords[3].keywords) THEN CategoryKeywords[3].category
    ELSE IF AnyKeyword(rule_lower, CategoryKeywords[4].keywords) THEN CategoryKeywords[4].category
    ELSE IF AnyKeyword(rule_lower, CategoryKeywords[5].keywords) THEN CategoryKeywords[5].category
    ELSE 6

Category(rule) == CategoryOf(Lower(rule))

\* the category of each rule, computed once
CategoriesOf(rule_list) ==
    SubSeq([k \in 1..Len(rule_list) |-> Category(rule_list[k])], 1, Len(rule_list))

\* for rule in rules: categories[...].append(rule), seen from the category c; st.of[k]
\* is the category that the if/elif chain gives the k-th rule
RECURSIVE CategoryRules(_)
CategoryRules(st) ==
    IF st.k > Len(st.rules) THEN st.out
    ELSE CategoryRules([rules |-> st.rules, of |-> st.of, c |-> st.c, k |-> st.k + 1,
                        out |-> IF st.of[st.k] = st.c THEN Append(st.out, st.rules[st.k])
                                ELSE st.out])

SectionLines(name, category_rules) ==
    IF category_rules = <<>> THEN <<>>
    ELSE << <<"#", "#", " ">> \o name, <<>> >>
         \o [k \in 1..Len(category_rules) |-> <<"-", " ">> \o category_rules[k]]
         \o << <<>> >>

\* for category_name, category_rules in categories.items(): ...
RECURSIVE CategoryLoop(_)
CategoryLoop(st) ==
    IF st.c > Len(CategoryNames) THEN st.lines
    ELSE CategoryLoop([rules |-> st.rules, of |-> st.of, c |-> st.c + 1,
             lines |-> st.lines
                       \o SectionLines(CategoryNames[st.c],
                                       CategoryRules([rules |-> st.rules, of |-> st.of,
                                                      c |-> st.c, k |-> 1, out |-> <<>>]))])

\* the lines of the header; now is datetime.now().strftime('%Y-%m-%d %H:%M:%S')
HeaderLines(project_info, now) ==
    << <<"#", " ", "~P", "~r", "~a", "~v", "~i", "~l", "~a", " ", "C", "l", "i", "n", "e", " ", "~d", "~l", "~ya", " ", "~p", "~r", "~o", "~e", "~k", "~t", "~a">>, <<"#", " ", "~A", "~v", "~t", "~o", "~g", "~e", "~n", "~e", "~r", "~i", "~r", "~o", "~v", "~a", "~n", "~n", "~o", ":", " ">> \o now, <<>> >>
    \o (IF project_info["project_type"] # <<"u", "n", "k", "n", "o", "w", "n">>
        THEN << <<"#", " ", "~T", "~i", "~p", " ", "~p", "~r", "~o", "~e", "~k", "~t", "~a", ":", " ">> \o project_info["project_type"] >> ELSE <<>>)
    \o (IF GetOr(project_info, "languages", <<>>) # <<>>
        THEN << <<"#", " ", "~YA", "~z", "~y", "~k", "~i", ":", " ">> \o Join(<<",", " ">>, project_info["languages"]) >> ELSE <<>>)
    \o (IF GetOr(project_info, "frameworks", <<>>) # <<>>
        THEN << <<"#", " ", "~F", "~r", "~e", "~j", "~m", "~v", "~o", "~r", "~k", "~i", ":", " ">> \o Join(<<",", " ">>, project_info["frameworks"]) >> ELSE <<>>)
    \o << <<>> >>

\* returns [raised, v]: project_info.get('project_type') is None when the key is
\* absent, None != 'unknown', and project_info['project_type'] raises KeyError
_format_rules_file(rule_list, config_data, now) ==
    LET project_info == GetOr(config_data, "project_structure", EmptyDict)
    IN  IF "project_type" \notin DOMAIN project_info
        THEN [raised |-> "KeyError", v |-> <<>>]
        ELSE [raised |-> "none",
              v |-> Join(<<"\n">>,
                         CategoryLoop([rules |-> rule_list, c |-> 1,
                                       of |-> CategoriesOf(rule_list),
                                       lines |-> HeaderLines(project_info, now)]))]

\* rules[:n]
Prefix(seq, n) == SubSeq(seq, 1, IF Len(seq) < n THEN Len(seq) ELSE n)

\* RulesGenerator._is_web_project: any(indicator in languages + frameworks ...)
rules_web_indicators ==
    { <<"j", "a", "v", "a", "s", "c", "r", "i", "p", "t">>, <<"t", "y", "p", "e", "s", "c", "r", "i", "p", "t">>, <<"n", "o", "d", "e", "j", "s">>, <<"r", "e", "a", "c", "t">>, <<"v", "u", "e">>, <<"a", "n", "g", "u", "l", "a", "r">> }
RulesIsWebProject(config_data) ==
    LET project_structure == GetOr(config_data, "project_structure", EmptyDict)
        languages == GetOr(project_structure, "languages", <<>>)
        frameworks == GetOr(project_structure, "frameworks", <<>>)
    IN  \E i \in 1..Len(languages \o frameworks) :
            (languages \o frameworks)[i] \in rules_web_indicators

\* '.test.', '.spec.', '_test.', 'test_', 'tests/'
test_indicators == << <<".", "t", "e", "s", "t", ".">>, <<".", "s", "p", "e", "c", ".">>, <<"_", "t", "e", "s", "t", ".">>, <<"t", "e", "s", "t", "_">>, <<"t", "e", "s", "t", "s", "/">> >>
_has_tests(config_data) ==
    LET project_structure == GetOr(config_data, "project_structure", EmptyDict)
        file_counts == GetOr(project_structure, "file_counts", EmptyDict)
    IN  \E file_pattern \in DOMAIN file_counts : AnyKeyword(file_pattern, test_indicators)

\* a variant that finds a framework in the files
DetectsDjango(config_data) == << <<"d", "j", "a", "n", "g", "o">> >>
_detect_specific_frameworks(config_data) == <<>>

\* "Создавай тесты для критически важного функционала"
CreateTestsRule == <<"~S", "~o", "~z", "~d", "~a", "~v", "~a", "~j", " ", "~t", "~e", "~s", "~t", "~y", " ", "~d", "~l", "~ya", " ", "~k", "~r", "~i", "~t", "~i", "~ch", "~e", "~s", "~k", "~i", " ", "~v", "~a", "~zh", "~n", "~o", "~g", "~o", " ", "~f", "~u", "~n", "~k", "~c", "~i", "~o", "~n", "~a", "~l", "~a">>

_select_base_rules(config_data, performance_data) ==
    Prefix(base_rules["general"], 3)
    \o (IF RulesIsWebProject(config_data) THEN Prefix(base_rules["security"], 3) ELSE <<>>)
    \o (IF GetOr(performance_data, "performance_issues", <<>>) # <<>>
        THEN Prefix(base_rules["performance"], 2) ELSE <<>>)
    \o (IF _has_tests(config_data) THEN Prefix(base_rules["testing"], 3)
        ELSE <<CreateTestsRule>>)
    \o Prefix(base_rules["documentation"], 2)

\* for name in names: if name in catalog: selected.extend(catalog[name][:n])
RECURSIVE SelectLoop(_)
SelectLoop(st) ==
    IF st.i > Len(st.names) THEN st.selected
    ELSE SelectLoop([names |-> st.names, catalog |-> st.catalog, n |-> st.n,
                     i |-> st.i + 1,
                     selected |-> IF st.names[st.i] \in DOMAIN st.catalog
                                  THEN st.selected \o Prefix(st.catalog[st.names[st.i]], st.n)
                                  ELSE st.selected])

_select_language_rules(config_data) ==
    SelectLoop([names |-> GetOr(GetOr(config_data, "project_structure", EmptyDict),
                                "languages", <<>>),
                catalog |-> language_specific_rules, n |-> 5, i |-> 1, selected |-> <<>>])

_select_framework_rules(config_data) ==
    SelectLoop([names |-> GetOr(GetOr(config_data, "project_structure", EmptyDict),
                                "frameworks", <<>>)
                          \o _detect_specific_frameworks(config_data),
                catalog |-> framework_rules, n |-> 3, i |-> 1, selected |-> <<>>])

\* the rules of lines 227-231 (memory) and 233-237 (cpu):
\*   Освобождай неиспользуемые ресурсы и закрывай соединения
\*   Используй генераторы вместо списков для больших данных
\*   Мониторь использование памяти в критических частях кода
\*   Оптимизируй алгоритмы с высокой вычислительной сложностью
\*   Используй многопоточность для CPU-интенсивных задач
\*   Кеширyй результаты дорогостоящих вычислений
\* and the rule of line 242:
\*   Обрабатывай исключения на уровне приложения, не игнорируй их
MemoryRules ==
    << <<"~O", "~s", "~v", "~o", "~b", "~o", "~zh", "~d", "~a", "~j", " ", "~n", "~e", "~i", "~s", "~p", "~o", "~l", "~soft", "~z", "~u", "~e", "~m", "~y", "~e", " ", "~r", "~e", "~s", "~u", "~r", "~s", "~y", " ", "~i", " ", "~z", "~a", "~k", "~r", "~y", "~v", "~a", "~j", " ", "~s", "~o", "~e", "~d", "~i", "~n", "~e", "~n", "~i", "~ya">>,
       <<"~I", "~s", "~p", "~o", "~l", "~soft", "~z", "~u", "~j", " ", "~g", "~e", "~n", "~e", "~r", "~a", "~t", "~o", "~r", "~y", " ", "~v", "~m", "~e", "~s", "~t", "~o", " ", "~s", "~p", "~i", "~s", "~k", "~o", "~v", " ", "~d", "~l", "~ya", " ", "~b", "~o", "~l", "~soft", "~sh", "~i", "~h", " ", "~d", "~a", "~n", "~n", "~y", "~h">>,
       <<"~M", "~o", "~n", "~i", "~t", "~o", "~r", "~soft", " ", "~i", "~s", "~p", "~o", "~l", "~soft", "~z", "~o", "~v", "~a", "~n", "~i", "~e", " ", "~p", "~a", "~m", "~ya", "~t", "~i", " ", "~v", " ", "~k", "~r", "~i", "~t", "~i", "~ch", "~e", "~s", "~k", "~i", "~h", " ", "~ch", "~a", "~s", "~t", "~ya", "~h", " ", "~k", "~o", "~d", "~a">> >>
CpuRules ==
    << <<"~O", "~p", "~t", "~i", "~m", "~i", "~z", "~i", "~r", "~u", "~j", " ", "~a", "~l", "~g", "~o", "~r", "~i", "~t", "~m", "~y", " ", "~s", " ", "~v", "~y", "~s", "~o", "~k", "~o", "~j", " ", "~v", "~y", "~ch", "~i", "~s", "~l", "~i", "~t", "~e", "~l", "~soft", "~n", "~o", "~j", " ", "~s", "~l", "~o", "~zh", "~n", "~o", "~s", "~t", "~soft", "~yu">>,
       <<"~I", "~s", "~p", "~o", "~l", "~soft", "~z", "~u", "~j", " ", "~m", "~n", "~o", "~g", "~o", "~p", "~o", "~t", "~o", "~ch", "~n", "~o", "~s", "~t", "~soft", " ", "~d", "~l", "~ya", " ", "C", "P", "U", "-", "~i", "~n", "~t", "~e", "~n", "~s", "~i", "~v", "~n", "~y", "~h", " ", "~z", "~a", "~d", "~a", "~ch">>,
       <<"~K", "~e", "~sh", "~i", "~r", "y", "~j", " ", "~r", "~e", "~z", "~u", "~l", "~soft", "~t", "~a", "~t", "~y", " ", "~d", "~o", "~r", "~o", "~g", "~o", "~s", "~t", "~o", "~ya", "~sch", "~i", "~h", " ", "~v", "~y", "~ch", "~i", "~s", "~l", "~e", "~n", "~i", "~j">> >>
ErrorPatternsRule == <<"~O", "~b", "~r", "~a", "~b", "~a", "~t", "~y", "~v", "~a", "~j", " ", "~i", "~s", "~k", "~l", "~yu", "~ch", "~e", "~n", "~i", "~ya", " ", "~n", "~a", " ", "~u", "~r", "~o", "~v", "~n", "~e", " ", "~p", "~r", "~i", "~l", "~o", "~zh", "~e", "~n", "~i", "~ya", ",", " ", "~n", "~e", " ", "~i", "~g", "~n", "~o", "~r", "~i", "~r", "~u", "~j", " ", "~i", "~h">>

\* for issue in perf_issues: ...
RECURSIVE AdaptiveLoop(_)
AdaptiveLoop(st) ==
    IF st.i > Len(st.issues) THEN st.adaptive_rules
    ELSE AdaptiveLoop([issues |-> st.issues, i |-> st.i + 1,
             adaptive_rules |->
                 IF st.issues[st.i]["type"] = "memory" THEN st.adaptive_rules \o MemoryRules
                 ELSE IF st.issues[st.i]["type"] = "cpu" THEN st.adaptive_rules \o CpuRules
                 ELSE st.adaptive_rules])

_generate_adaptive_rules(performance_data) ==
    AdaptiveLoop([issues |-> GetOr(performance_data, "performance_issues", <<>>),
                  i |-> 1, adaptive_rules |-> <<>>])
    \o (IF GetOr(performance_data, "error_patterns", <<>>) # <<>>
        THEN <<ErrorPatternsRule>> ELSE <<>>)

\* all_base_rules of _is_custom_rule: every rule of the three catalogs
RulesOf(catalog) == UNION { {catalog[k][i] : i \in 1..Len(catalog[k])} : k \in DOMAIN catalog }
all_base_rules ==
    RulesOf(base_rules) \cup RulesOf(language_specific_rules) \cup RulesOf(framework_rules)

\* base_rule.lower().strip() for base_rule in all_base_rules
LoweredBaseRules == {Strip(Lower(base_rule)) : base_rule \in all_base_rules}

\* a variant that compares the texts as they are written
IsCustomRuleCaseSensitive(rule) == Strip(rule) \notin {Strip(b) : b \in all_base_rules}

_is_custom_rule(rule) == Strip(Lower(rule)) \notin LoweredBaseRules

\* for line in existing_content.split('\n'): ...
RECURSIVE PreserveLoop(_)
PreserveLoop(st) ==
    IF st.i > Len(st.lines) THEN st.custom_rules
    ELSE LET line == Strip(st.lines[st.i])
         IN  PreserveLoop([lines |-> st.lines, i |-> st.i + 1,
                 custom_rules |->
                     IF line # <<>> /\ ~StartsWith(line, <<"#">>) /\ _is_custom_rule(line)
                     THEN Append(st.custom_rules, line)
                     ELSE st.custom_rules])

_preserve_custom_rules(config_data) ==
    LET cur_rules == GetOr(config_data, "current_rules", EmptyDict)
    IN  IF GetOr(cur_rules, "exists", FALSE) /\ GetOr(cur_rules, "content", <<>>) # <<>>
        THEN PreserveLoop([lines |-> Split(cur_rules["content"], "\n"), i |-> 1,
                           custom_rules |-> <<>>])
        ELSE <<>>

\* lines 130-145: the candidates in the order in which they are gathered
Candidates(config_data, performance_data) ==
    _select_base_rules(config_data, performance_data)
    \o _select_language_rules(config_data)
    \o _select_framework_rules(config_data)
    \o _generate_adaptive_rules(performance_data)
    \o _preserve_custom_rules(config_data)

\* lines 148-154 on the gathered candidates
Deduplicated(acc) == [candidates |-> acc, unique |-> _remove_duplicates(acc)]
Prioritized(acc) ==
    [candidates |-> acc.candidates, unique |-> acc.unique,
     selected |-> _prioritize_rules(acc.unique)]
Formatted(acc, formatted) ==
    [candidates |-> acc.candidates, unique |-> acc.unique, selected |-> acc.selected,
     raised |-> formatted.raised, v |-> formatted.v]
FormattedFrom(acc, config_data, now) ==
    Formatted(acc, _format_rules_file(acc.selected, config_data, now))

generate_improved_rules(config_data, performance_data, now) ==
    FormattedFrom(Prioritized(Deduplicated(Candidates(config_data, performance_data))),
                  config_data, now)

(***************************************************************************)
(* Scenario 4: generate_improved_rules(config_data, performance_data) on   *)
(* snapshots with sections present, empty and absent.                      *)
(***************************************************************************)
MaxLines == 2

\* project_structure: as _analyze_project_structure builds it for an empty workspace,
\* for a Python project, for a React project and for a project with test files;
\* then with fields missing, and empty
ProjectInfoChoices ==
    { [project_type |-> <<"u", "n", "k", "n", "o", "w", "n">>, languages |-> <<>>, frameworks |-> <<>>,
       file_counts |-> EmptyDict, total_files |-> 0],
      [project_type |-> <<"b", "a", "c", "k", "e", "n", "d">>, languages |-> << <<"p", "y", "t", "h", "o", "n">> >>,
       frameworks |-> << <<"d", "j", "a", "n", "g", "o">> >>, file_counts |-> (<<".", "p", "y">> :> 3), total_files |-> 3],
      [project_type |-> <<"w", "e", "b">>, languages |-> << <<"j", "a", "v", "a", "s", "c", "r", "i", "p", "t">>, <<"g", "o">> >>,
       frameworks |-> << <<"r", "e", "a", "c", "t">> >>, file_counts |-> (<<".", "j", "s">> :> 2), total_files |-> 2],
      [project_type |-> <<"u", "n", "k", "n", "o", "w", "n">>, languages |-> << <<"p", "y", "t", "h", "o", "n">> >>,
       file_counts |-> (<<".", "t", "e", "s", "t", ".", "p", "y">> :> 1)],
      [languages |-> << <<"p", "y", "t", "h", "o", "n">> >>],
      [project_type |-> <<"l", "i", "b", "r", "a", "r", "y">>],
      EmptyDict }

\* the lines of an existing .clinerules: a comment, a blank line, two rules of the
\* user, and a catalog rule in other letters and with blanks around it
\*   "  СЛЕДУЙ принципам solid ПРИ РАЗРАБОТКЕ "
UserLines ==
    { <<"#", " ", "M", "i", "n", "e">>, <<" ", " ">>, <<" ", "U", "s", "e", " ", "O", "A", "u", "t", "h", " ", "t", "o", "k", "e", "n", "s">>, <<"K", "e", "e", "p", " ", "s", "t", "y", "l", "e", " ", "d", "o", "c", "s">>,
      <<" ", " ", "~S", "~L", "~E", "~D", "~U", "~J", " ", "~p", "~r", "~i", "~n", "~c", "~i", "~p", "~a", "~m", " ", "s", "o", "l", "i", "d", " ", "~P", "~R", "~I", " ", "~R", "~A", "~Z", "~R", "~A", "~B", "~O", "~T", "~K", "~E", " ">> }

RECURSIVE LineLists(_)
LineLists(n) ==
    IF n = 0 THEN {<<>>}
    ELSE LET shorter == LineLists(n - 1)
         IN  shorter \cup {Append(l, t) : l \in {x \in shorter : Len(x) = n - 1},
                                          t \in UserLines}

Contents == {Join(<<"\n">>, ls) : ls \in LineLists(MaxLines)}

\* current_rules as _analyze_clinerules returns it: for a missing file, for a file
\* that could not be read, and for a file with the content read
CurrentRulesChoices ==
    { [exists |-> FALSE, content |-> <<>>, rules_count |-> 0],
      [exists |-> TRUE, content |-> <<>>] }
    \cup { [exists |-> TRUE, content |-> c, rules_count |-> 0] : c \in Contents }

WithKey(d, k, choice) == IF choice = Absent THEN d ELSE (k :> choice[2]) @@ d
Present(choices) == {Absent} \cup {<<"present", x>> : x \in choices}

RulesConfigs(infos, current) ==
    { WithKey(WithKey(EmptyDict, "project_structure", p), "current_rules", c) :
        p \in infos, c \in current }

RuleIssueLists ==
    { <<>>, <<[type |-> "memory", severity |-> "high"]>>,
      <<[type |-> "cpu", severity |-> "high"]>>,
      <<[type |-> "disk", severity |-> "low"]>>,
      <<[type |-> "cpu", severity |-> "low"], [type |-> "memory", severity |-> "high"]>> }

RulesPerformances(issues, errors) ==
    { WithKey(WithKey(EmptyDict, "performance_issues", i), "error_patterns", e) :
        i \in issues, e \in errors }

\* datetime.now().strftime('%Y-%m-%d %H:%M:%S') at the time of the call
Timestamps == { <<"2", "0", "2", "4", "-", "0", "1", "-", "0", "1", " ", "0", "0", ":", "0", "0", ":", "0", "0">>, <<"2", "0", "2", "4", "-", "1", "2", "-", "3", "1", " ", "2", "3", ":", "5", "9", ":", "5", "9">> }

\* every project structure and every performance snapshot with few rule files, and
\* every rule file with few of the others
GenerateInputs ==
    (RulesConfigs(Present(ProjectInfoChoices),
                  {Absent, <<"present", [exists |-> TRUE, content |-> <<" ", "U", "s", "e", " ", "O", "A", "u", "t", "h", " ", "t", "o", "k", "e", "n", "s", "\n", "K", "e", "e", "p", " ", "s", "t", "y", "l", "e", " ", "d", "o", "c", "s">>, rules_count |-> 2]>>})
     \X (RulesPerformances(Present(RuleIssueLists), {Absent})
         \cup RulesPerformances({Absent}, {<<"present", <<"timeout">> >>})))
    \cup
    (RulesConfigs({<<"present", [project_type |-> <<"w", "e", "b">>, languages |-> << <<"j", "a", "v", "a", "s", "c", "r", "i", "p", "t">>, <<"g", "o">> >>, frameworks |-> << <<"r", "e", "a", "c", "t">> >>, file_counts |-> (<<".", "j", "s">> :> 2), total_files |-> 2]>>},
                  Present(CurrentRulesChoices))
     \X RulesPerformances({Absent, <<"present", <<[type |-> "memory", severity |-> "high"]>> >>},
                          {Absent}))

InitGenerate ==
    /\ \E input \in GenerateInputs :
          /\ rules_config = input[1]
          /\ rules_performance = input[2]
    /\ GenerateIdle
    /\ pc = "generate"
    /\ heap = <<>>
    /\ EarlierIdle
    /\ FurtherUnused
    /\ WorkflowsUnused
    /\ RunUnused

\* improved_rules = self.rules_generator.generate_improved_rules(...): the call
\* returns the document, or ends with the exception _format_rules_file raises
GenerateImprovedRules ==
    /\ pc = "generate"
    /\ \E now \in Timestamps :
       \E out \in {generate_improved_rules(rules_config, rules_performance, now)} :
          /\ candidates' = out.candidates
          /\ deduplicated' = out.unique
          /\ selected_rules' = out.selected
          /\ raised' = out.raised
          /\ rules_content' = out.v
          /\ pc' = IF out.raised = "none" THEN "generated" ELSE "raised"
    /\ UNCHANGED <<heap, rules_config, rules_performance, earlierVars, workflowVars, runVars, furtherVars>>

NextGenerate == GenerateImprovedRules

SpecGenerate == InitGenerate /\ [][NextGenerate]_vars

(***************************************************************************)
(* WorkflowOptimizer.optimize_workflows (src/src/workflow_optimizer.py).   *)
(* The dict of workflows is the function from the names to the contents;   *)
(* a content is the sequence of the words of the file, "\n" between two    *)
(* lines.                                                                  *)
(***************************************************************************)
\* A text of a workflow is never looked into, only put into the lines of a file, so
\* it stands here as one word: the place of the text in the catalogs.  The texts:
\*   development.name                     Разработка нового функционала
\*   development.description              Стандартный процесс разработки новой функции
\*   development.steps[0]                 1. Анализ требований и планирование архитектуры
\*   development.steps[1]                 2. Создание или обновление технического задания
\*   development.steps[2]                 3. Разработка основной логики функции
\*   development.steps[3]                 4. Написание unit-тестов для новой функциональности
\*   development.steps[4]                 5. Создание интеграционных тестов при необходимости
\*   development.steps[5]                 6. Обновление документации (README, docs, комментарии)
\*   development.steps[6]                 7. Проведение код-ревью и рефакторинг при необходимости
\*   development.steps[7]                 8. Тестирование в тестовой среде
\*   development.steps[8]                 9. Создание changelog записи
\*   development.steps[9]                 10. Подготовка к деплою
\*   bugfix.name                          Исправление багов
\*   bugfix.description                   Процесс исправления обнаруженных ошибок
\*   bugfix.steps[0]                      1. Воспроизведение и подтверждение бага
\*   bugfix.steps[1]                      2. Анализ кода и выявление причины проблемы
\*   bugfix.steps[2]                      3. Разработка тест-кейса для воспроизведения бага
\*   bugfix.steps[3]                      4. Исправление проблемы в коде
\*   bugfix.steps[4]                      5. Проверка, что тест теперь проходит успешно
\*   bugfix.steps[5]                      6. Запуск полного набора тестов
\*   bugfix.steps[6]                      7. Обновление документации при необходимости
\*   bugfix.steps[7]                      8. Код-ревью изменений
\*   bugfix.steps[8]                      9. Тестирование исправления в тестовой среде
\*   bugfix.steps[9]                      10. Документирование исправления в changelog
\*   refactoring.name                     Рефакторинг кода
\*   refactoring.description              Улучшение структуры и качества существующего кода
\*   refactoring.steps[0]                 1. Определение области для рефакторинга
\*   refactoring.steps[1]                 2. Создание плана рефакторинга
\*   refactoring.steps[2]                 3. Написание тестов для покрытия текущего поведения
\*   refactoring.steps[3]                 4. Поэтапное проведение рефакторинга
\*   refactoring.steps[4]                 5. Запуск тестов после каждого значимого изменения
\*   refactoring.steps[5]                 6. Обновление документации и комментариев
\*   refactoring.steps[6]                 7. Проверка производительности после рефакторинга
\*   refactoring.steps[8]                 9. Интеграционное тестирование
\*   refactoring.steps[9]                 10. Документирование изменений
\*   testing.name                         Тестирование
\*   testing.description                  Создание и поддержание тестового покрытия
\*   testing.steps[0]                     1. Анализ текущего тестового покрытия
\*   testing.steps[1]                     2. Определение критических областей для тестирования
\*   testing.steps[2]                     3. Написание unit-тестов для новых компонентов
\*   testing.steps[3]                     4. Создание интеграционных тестов
\*   testing.steps[4]                     5. Разработка end-to-end тестов при необходимости
\*   testing.steps[5]                     6. Настройка автоматического запуска тестов
\*   testing.steps[6]                     7. Создание моков для внешних зависимостей
\*   testing.steps[7]                     8. Тестирование граничных случаев и ошибок
\*   testing.steps[8]                     9. Анализ и улучшение покрытия тестами
\*   testing.steps[9]                     10. Документирование тестовых сценариев
\*   deployment.name                      Деплоймент
\*   deployment.description               Процесс развертывания приложения
\*   deployment.steps[0]                  1. Подготовка production окружения
\*   deployment.steps[1]                  2. Проверка всех тестов перед деплоем
\*   deployment.steps[2]                  3. Создание резервной копии текущей версии
\*   deployment.steps[3]                  4. Обновление переменных окружения при необходимости
\*   deployment.steps[4]                  5. Запуск деплоймента в production
\*   deployment.steps[5]                  6. Проверка работоспособности сервиса после деплоя
\*   deployment.steps[6]                  7. Мониторинг логов и метрик
\*   deployment.steps[7]                  8. Smoke тестирование основной функциональности
\*   deployment.steps[8]                  9. Уведомление команды об успешном деплое
\*   deployment.steps[9]                  10. Обновление документации по развертыванию
\*   python.python_setup.name             Настройка Python проекта
\*   python.python_setup.description      Инициализация и настройка Python проекта
\*   python.python_setup.steps[0]         1. Создание виртуального окружения (python -m venv venv)
\*   python.python_setup.steps[1]         2. Активация виртуального окружения
\*   python.python_setup.steps[2]         3. Создание requirements.txt или pyproject.toml
\*   python.python_setup.steps[3]         4. Установка зависимостей разработки (pytest, black, flake8)
\*   python.python_setup.steps[4]         5. Настройка pre-commit hooks
\*   python.python_setup.steps[5]         6. Создание .gitignore для Python проекта
\*   python.python_setup.steps[6]         7. Настройка IDE/редактора (VS Code settings)
\*   python.python_setup.steps[7]         8. Создание базовой структуры проекта
\*   python.python_setup.steps[8]         9. Инициализация тестового фреймворка
\*   python.python_setup.steps[9]         10. Создание README.md с инструкциями по запуску
\*   python.python_package.name           Создание Python пакета
\*   python.python_package.description    Процесс создания переиспользуемого Python пакета
\*   python.python_package.steps[0]       1. Создание setup.py или pyproject.toml
\*   python.python_package.steps[1]       2. Определение структуры пакета (__init__.py файлы)
\*   python.python_package.steps[2]       3. Написание основного функционала модулей
\*   python.python_package.steps[3]       4. Создание comprehensive тестов
\*   python.python_package.steps[4]       5. Написание документации (docstrings, README)
\*   python.python_package.steps[5]       6. Настройка CI/CD для автоматического тестирования
\*   python.python_package.steps[6]       7. Версионирование пакета (semantic versioning)
\*   python.python_package.steps[7]       8. Создание CHANGELOG.md
\*   python.python_package.steps[8]       9. Подготовка к публикации в PyPI
\*   python.python_package.steps[9]       10. Создание документации на Read the Docs
\*   javascript.node_setup.name           Настройка Node.js проекта
\*   javascript.node_setup.description    Инициализация Node.js/npm проекта
\*   javascript.node_setup.steps[0]       1. Инициализация проекта (npm init)
\*   javascript.node_setup.steps[1]       2. Установка зависимостей разработки (eslint, prettier, jest)
\*   javascript.node_setup.steps[2]       3. Создание .eslintrc и .prettierrc конфигураций
\*   javascript.node_setup.steps[3]       4. Настройка npm scripts в package.json
\*   javascript.node_setup.steps[4]       5. Создание .gitignore для Node.js
\*   javascript.node_setup.steps[5]       6. Настройка Jest для тестирования
\*   javascript.node_setup.steps[6]       7. Создание базовой структуры проекта (src, tests)
\*   javascript.node_setup.steps[7]       8. Настройка Babel при необходимости
\*   javascript.node_setup.steps[8]       9. Инициализация Git репозитория
\*   javascript.node_setup.steps[9]       10. Создание README с инструкциями
\*   javascript.react_component.name      Создание React компонента
\*   javascript.react_component.description Процесс разработки React компонента
\*   javascript.react_component.steps[0]  1. Планирование интерфейса и props компонента
\*   javascript.react_component.steps[1]  2. Создание базовой структуры компонента
\*   javascript.react_component.steps[2]  3. Добавление PropTypes или TypeScript типов
\*   javascript.react_component.steps[3]  4. Написание unit-тестов с Jest и React Testing Library
\*   javascript.react_component.steps[4]  5. Создание Storybook истории для компонента
\*   javascript.react_component.steps[5]  6. Добавление стилизации (CSS/styled-components)
\*   javascript.react_component.steps[6]  7. Тестирование accessibility (a11y)
\*   javascript.react_component.steps[7]  8. Оптимизация производительности (React.memo, useMemo)
\*   javascript.react_component.steps[8]  9. Интеграция в основное приложение
\*   javascript.react_component.steps[9]  10. Документирование компонента и его API
\*   django.django_app.name               Создание Django приложения
\*   django.django_app.description        Разработка нового Django app
\*   django.django_app.steps[0]           1. Создание Django app (python manage.py startapp)
\*   django.django_app.steps[1]           2. Регистрация app в settings.py
\*   django.django_app.steps[2]           3. Создание моделей в models.py
\*   django.django_app.steps[3]           4. Создание и применение миграций
\*   django.django_app.steps[4]           5. Создание views для обработки запросов
\*   django.django_app.steps[5]           6. Настройка URLs в urls.py
\*   django.django_app.steps[6]           7. Создание шаблонов в templates/
\*   django.django_app.steps[7]           8. Написание тестов для models и views
\*   django.django_app.steps[8]           9. Создание Django forms при необходимости
\*   django.django_app.steps[9]           10. Настройка admin interface
\*   flask.flask_api.name                 Создание Flask API
\*   flask.flask_api.description          Разработка RESTful API на Flask
\*   flask.flask_api.steps[0]             1. Настройка Flask приложения и blueprints
\*   flask.flask_api.steps[1]             2. Создание моделей с SQLAlchemy
\*   flask.flask_api.steps[2]             3. Настройка сериализации с Marshmallow
\*   flask.flask_api.steps[3]             4. Создание endpoints для CRUD операций
\*   flask.flask_api.steps[4]             5. Добавление валидации данных
\*   flask.flask_api.steps[5]             6. Настройка аутентификации и авторизации
\*   flask.flask_api.steps[6]             7. Написание unit и integration тестов
\*   flask.flask_api.steps[7]             8. Создание API документации (Swagger/OpenAPI)
\*   flask.flask_api.steps[8]             9. Добавление логирования и обработки ошибок
\*   flask.flask_api.steps[9]             10. Настройка CORS и security headers
\* self.base_workflows (workflow_optimizer.py:20)
base_workflows ==
    ("development" :>
        [name |-> "development.name",
         description |-> "development.description",
         steps |-> <<"development.steps[0]", "development.steps[1]",
                    "development.steps[2]", "development.steps[3]", "development.steps[4]",
                    "development.steps[5]", "development.steps[6]", "development.steps[7]",
                    "development.steps[8]", "development.steps[9]">>]) @@
    ("bugfix" :>
        [name |-> "bugfix.name",
         description |-> "bugfix.description",
         steps |-> <<"bugfix.steps[0]", "bugfix.steps[1]", "bugfix.steps[2]",
                    "bugfix.steps[3]", "bugfix.steps[4]", "bugfix.steps[5]",
                    "bugfix.steps[6]", "bugfix.steps[7]", "bugfix.steps[8]",
                    "bugfix.steps[9]">>]) @@
    ("refactoring" :>
        [name |-> "refactoring.name",
         description |-> "refactoring.description",
         steps |-> <<"refactoring.steps[0]", "refactoring.steps[1]",
                    "refactoring.steps[2]", "refactoring.steps[3]", "refactoring.steps[4]",
                    "refactoring.steps[5]", "refactoring.steps[6]", "bugfix.steps[7]",
                    "refactoring.steps[8]", "refactoring.steps[9]">>]) @@
    ("testing" :>
        [name |-> "testing.name",
         description |-> "testing.description",
         steps |-> <<"testing.steps[0]", "testing.steps[1]", "testing.steps[2]",
                    "testing.steps[3]", "testing.steps[4]", "testing.steps[5]",
                    "testing.steps[6]", "testing.steps[7]", "testing.steps[8]",
                    "testing.steps[9]">>]) @@
    ("deployment" :>
        [name |-> "deployment.name",
         description |-> "deployment.description",
         steps |-> <<"deployment.steps[0]", "deployment.steps[1]", "deployment.steps[2]",
                    "deployment.steps[3]", "deployment.steps[4]", "deployment.steps[5]",
                    "deployment.steps[6]", "deployment.steps[7]", "deployment.steps[8]",
                    "deployment.steps[9]">>])

\* self.language_workflows (workflow_optimizer.py)
language_workflows ==
    ("python" :> (
        ("python_setup" :>
        [name |-> "python.python_setup.name",
         description |-> "python.python_setup.description",
         steps |-> <<"python.python_setup.steps[0]", "python.python_setup.steps[1]",
                    "python.python_setup.steps[2]", "python.python_setup.steps[3]",
                    "python.python_setup.steps[4]", "python.python_setup.steps[5]",
                    "python.python_setup.steps[6]", "python.python_setup.steps[7]",
                    "python.python_setup.steps[8]", "python.python_setup.steps[9]">>]) @@
        ("python_package" :>
        [name |-> "python.python_package.name",
         description |-> "python.python_package.description",
         steps |-> <<"python.python_package.steps[0]", "python.python_package.steps[1]",
                    "python.python_package.steps[2]", "python.python_package.steps[3]",
                    "python.python_package.steps[4]", "python.python_package.steps[5]",
                    "python.python_package.steps[6]", "python.python_package.steps[7]",
                    "python.python_package.steps[8]",
                    "python.python_package.steps[9]">>]))) @@
    ("javascript" :> (
        ("node_setup" :>
        [name |-> "javascript.node_setup.name",
         description |-> "javascript.node_setup.description",
         steps |-> <<"javascript.node_setup.steps[0]", "javascript.node_setup.steps[1]",
                    "javascript.node_setup.steps[2]", "javascript.node_setup.steps[3]",
                    "javascript.node_setup.steps[4]", "javascript.node_setup.steps[5]",
                    "javascript.node_setup.steps[6]", "javascript.node_setup.steps[7]",
                    "javascript.node_setup.steps[8]",
                    "javascript.node_setup.steps[9]">>]) @@
        ("react_component" :>
        [name |-> "javascript.react_component.name",
         description |-> "javascript.react_component.description",
         steps |-> <<"javascript.react_component.steps[0]",
                    "javascript.react_component.steps[1]",
                    "javascript.react_component.steps[2]",
                    "javascript.react_component.steps[3]",
                    "javascript.react_component.steps[4]",
                    "javascript.react_component.steps[5]",
                    "javascript.react_component.steps[6]",
                    "javascript.react_component.steps[7]",
                    "javascript.react_component.steps[8]",
                    "javascript.react_component.steps[9]">>])))

\* self.framework_workflows (workflow_optimizer.py)
framework_workflows ==
    ("django" :> (
        ("django_app" :>
        [name |-> "django.django_app.name",
         description |-> "django.django_app.description",
         steps |-> <<"django.django_app.steps[0]", "django.django_app.steps[1]",
                    "django.django_app.steps[2]", "django.django_app.steps[3]",
                    "django.django_app.steps[4]", "django.django_app.steps[5]",
                    "django.django_app.steps[6]", "django.django_app.steps[7]",
                    "django.django_app.steps[8]", "django.django_app.steps[9]">>]))) @@
    ("flask" :> (
        ("flask_api" :>
        [name |-> "flask.flask_api.name",
         description |-> "flask.flask_api.description",
         steps |-> <<"flask.flask_api.steps[0]", "flask.flask_api.steps[1]",
                    "flask.flask_api.steps[2]", "flask.flask_api.steps[3]",
                    "flask.flask_api.steps[4]", "flask.flask_api.steps[5]",
                    "flask.flask_api.steps[6]", "flask.flask_api.steps[7]",
                    "flask.flask_api.steps[8]", "flask.flask_api.steps[9]">>])))


\* the fixed lines of _format_workflow:
\*   "# "                      the mark in front of the name
\*   "**Описание:** "          -> "**description:** "
\*   "## Шаги выполнения:"     -> "## steps:"
\*   "## Дополнительные заметки:" -> "## notes:"
\*   "- Всегда создавайте резервные копии перед критическими изменениями" -> "- note 1"
\*   "- Проводите код-ревью для всех значимых изменений"                  -> "- note 2"
\*   "- Документируйте все изменения в changelog"                         -> "- note 3"
\*   "- Тестируйте изменения в изолированной среде"                       -> "- note 4"
\*   "*Создано автоматически: ", "*"  -> "*created: ", "*"
\* now is datetime.now().strftime('%Y-%m-%d %H:%M:%S')
_format_workflow(workflow_data, now) ==
    Join(<<"\n">>,
         << <<"# ", workflow_data["name"]>>, <<>>,
            <<"**description:** ", workflow_data["description"]>>, <<>>,
            <<"## steps:">>, <<>> >>
         \o [k \in 1..Len(workflow_data["steps"]) |-> <<workflow_data["steps"][k]>>]
         \o << <<>>, <<"## notes:">>, <<>>, <<"- note 1">>, <<"- note 2">>,
               <<"- note 3">>, <<"- note 4">>, <<>>, <<"*created: ", now, "*">> >>)

WfProjectStructure(config_data) == GetOr(config_data, "project_structure", EmptyDict)

_needs_refactoring(config_data) ==
    \/ GetOr(WfProjectStructure(config_data), "total_files", 0) > 50
    \/ Len(GetOr(WfProjectStructure(config_data), "languages", <<>>)) > 2

\* sum(count for the extensions in exts)
RECURSIVE SumCounts(_, _)
SumCounts(file_counts, exts) ==
    IF exts = {} THEN 0
    ELSE LET ext == CHOOSE e \in exts : TRUE
         IN  file_counts[ext] + SumCounts(file_counts, exts \ {ext})

\* test_files / total_files >= 0.2
_has_adequate_tests(config_data) ==
    LET file_counts == GetOr(WfProjectStructure(config_data), "file_counts", EmptyDict)
        total_files == SumCounts(file_counts, DOMAIN file_counts)
        test_files ==
            SumCounts(file_counts,
                      {ext \in DOMAIN file_counts :
                          Contains(ext, <<"t", "e", "s", "t">>) \/ Contains(ext, <<"s", "p", "e", "c">>)})
    IN  total_files > 0 /\ 5 * test_files >= total_files

_is_deployable_project(config_data) ==
    LET languages == GetOr(WfProjectStructure(config_data), "languages", <<>>)
        frameworks == GetOr(WfProjectStructure(config_data), "frameworks", <<>>)
    IN  \E i \in 1..Len(languages \o frameworks) :
            (languages \o frameworks)[i] \in {"javascript", "typescript", "python", "nodejs"}

_has_react_indicators(config_data) ==
    LET file_counts == GetOr(WfProjectStructure(config_data), "file_counts", EmptyDict)
    IN  <<".", "j", "s", "x">> \in DOMAIN file_counts \/ <<".", "t", "s", "x">> \in DOMAIN file_counts

\* the last two branches (a name ending in _app or _api, and every other name) both
\* return True
_is_workflow_needed(workflow_name, config_data) ==
    LET languages == GetOr(WfProjectStructure(config_data), "languages", <<>>)
    IN  IF workflow_name = "python_setup"
        THEN \E i \in 1..Len(languages) : languages[i] = "python"
        ELSE IF workflow_name = "node_setup"
        THEN \E i \in 1..Len(languages) : languages[i] \in {"javascript", "typescript"}
        ELSE IF workflow_name = "react_component"
        THEN _has_react_indicators(config_data)
        ELSE TRUE

\* selected[name] = self._format_workflow(self.base_workflows[name]) for the names
Formatted_base(names, now) ==
    [name \in names |-> _format_workflow(base_workflows[name], now)]

_select_base_workflows(config_data, now) ==
    Formatted_base({"development", "bugfix"}
                   \cup (IF _needs_refactoring(config_data) THEN {"refactoring"} ELSE {})
                   \cup (IF ~_has_adequate_tests(config_data) THEN {"testing"} ELSE {})
                   \cup (IF _is_deployable_project(config_data) THEN {"deployment"} ELSE {}),
                   now)

\* for key in keys: if key in catalog: for workflow_name, workflow_data in
\* catalog[key].items(): if needed: selected[workflow_name] = formatted
RECURSIVE SelectWorkflows(_)
SelectWorkflows(st) ==
    IF st.i > Len(st.keys) THEN st.selected
    ELSE LET key == st.keys[st.i]
             found == IF key \in DOMAIN st.catalog THEN st.catalog[key] ELSE EmptyDict
             needed == {n \in DOMAIN found : _is_workflow_needed(n, st.config_data)}
         IN  SelectWorkflows([keys |-> st.keys, catalog |-> st.catalog,
                              config_data |-> st.config_data, now |-> st.now,
                              i |-> st.i + 1,
                              selected |-> [n \in needed |-> _format_workflow(found[n], st.now)]
                                           @@ st.selected])

_select_language_workflows(config_data, now) ==
    SelectWorkflows([keys |-> GetOr(WfProjectStructure(config_data), "languages", <<>>),
                     catalog |-> language_workflows, config_data |-> config_data,
                     now |-> now, i |-> 1, selected |-> EmptyDict])

_detect_frameworks_from_files(config_data) == <<>>

_select_framework_workflows(config_data, now) ==
    SelectWorkflows([keys |-> GetOr(WfProjectStructure(config_data), "frameworks", <<>>)
                              \o _detect_frameworks_from_files(config_data),
                     catalog |-> framework_workflows, config_data |-> config_data,
                     now |-> now, i |-> 1, selected |-> EmptyDict])

_is_custom_workflow(workflow_name) ==
    /\ workflow_name \notin DOMAIN base_workflows
    /\ \A language \in DOMAIN language_workflows :
          workflow_name \notin DOMAIN language_workflows[language]
    /\ \A framework \in DOMAIN framework_workflows :
          workflow_name \notin DOMAIN framework_workflows[framework]

_preserve_custom_workflows(config_data) ==
    LET current_workflows == GetOr(config_data, "current_workflows", EmptyDict)
        workflows_data == GetOr(current_workflows, "workflows", EmptyDict)
    IN  IF GetOr(current_workflows, "exists", FALSE)
        THEN [n \in {w \in DOMAIN workflows_data : _is_custom_workflow(w)} |->
                  workflows_data[n]["content"]]
        ELSE EmptyDict

\* the perf_workflow literal of lines 318-333; a new dict with a new list at each call:
\*   perf.name         Оптимизация производительности
\*   perf.description  Процесс выявления и устранения проблем производительности
\*   perf.steps[0]     1. Профилирование приложения для выявления узких мест
\*   perf.steps[1]     2. Анализ использования памяти и CPU
\*   perf.steps[2]     3. Оптимизация алгоритмов и структур данных
\*   perf.steps[3]     4. Внедрение кеширования где это уместно
\*   perf.steps[4]     5. Оптимизация запросов к базе данных
\*   perf.steps[5]     6. Минификация и сжатие статических ресурсов
\*   perf.steps[6]     7. Настройка CDN и балансировки нагрузки
\*   perf.steps[7]     8. Мониторинг метрик производительности
\*   perf.steps[8]     9. A/B тестирование оптимизаций
\*   perf.steps[9]     10. Документирование изменений производительности
perf_workflow ==
    [name |-> "perf.name", description |-> "perf.description",
     steps |-> <<"perf.steps[0]", "perf.steps[1]", "perf.steps[2]", "perf.steps[3]",
                 "perf.steps[4]", "perf.steps[5]", "perf.steps[6]", "perf.steps[7]",
                 "perf.steps[8]", "perf.steps[9]">>]

\* a variant that adds the line of a type once
RECURSIVE AdditionalStepsOnce(_)
AdditionalStepsOnce(st) ==
    IF st.i > Len(st.issues) THEN st.additional_steps
    ELSE AdditionalStepsOnce([issues |-> st.issues, i |-> st.i + 1,
             additional_steps |->
                 IF st.issues[st.i]["type"] \in {"memory", "cpu"}
                    /\ \A k \in 1..Len(st.additional_steps) :
                          st.additional_steps[k] # "- " \o st.issues[st.i]["type"]
                 THEN Append(st.additional_steps, "- " \o st.issues[st.i]["type"])
                 ELSE st.additional_steps])

\* for issue in performance_issues: ...
\*   "- memory"  - Анализ утечек памяти и оптимизация GC
\*   "- cpu"     - Распараллеливание CPU-интенсивных операций
RECURSIVE AdditionalSteps(_)
AdditionalSteps(st) ==
    IF st.i > Len(st.issues) THEN st.additional_steps
    ELSE AdditionalSteps([issues |-> st.issues, i |-> st.i + 1,
             additional_steps |->
                 IF st.issues[st.i]["type"] = "memory"
                 THEN Append(st.additional_steps, "- memory")
                 ELSE IF st.issues[st.i]["type"] = "cpu"
                 THEN Append(st.additional_steps, "- cpu")
                 ELSE st.additional_steps])

_adapt_workflows_for_performance(workflows, performance_data, now) ==
    LET performance_issues == GetOr(performance_data, "performance_issues", <<>>)
    IN  IF performance_issues # <<>>
        THEN ("performance_optimization" :>
                 _format_workflow(
                     [perf_workflow EXCEPT !["steps"] =
                         @ \o AdditionalSteps([issues |-> performance_issues, i |-> 1,
                                               additional_steps |-> <<>>])],
                     now))
             @@ workflows
        ELSE workflows

\* lines 216-228: update() lets the later source win a name
optimize_workflows(config_data, performance_data, now) ==
    _adapt_workflows_for_performance(
        _preserve_custom_workflows(config_data)
        @@ _select_framework_workflows(config_data, now)
        @@ _select_language_workflows(config_data, now)
        @@ _select_base_workflows(config_data, now),
        performance_data, now)

(***************************************************************************)
(* Scenario 5: runs of optimize_workflows; between two runs the workflows  *)
(* are written to .cline/workflows (ClineAutoUpdater.update_workflows) and *)
(* read back by ConfigAnalyzer._analyze_workflows.                         *)
(***************************************************************************)
MaxOptimizations == 2

\* project_structure: empty workspace; a large Python and Django project with
\* test files; a React project; three languages without file counts
WfProjectChoices ==
    { [languages |-> <<>>, frameworks |-> <<>>, file_counts |-> EmptyDict,
       total_files |-> 0],
      [languages |-> <<"python">>, frameworks |-> <<"django">>,
       file_counts |-> (<<".", "p", "y">> :> 4 @@ <<".", "t", "e", "s", "t", ".", "p", "y">> :> 1), total_files |-> 51],
      [languages |-> <<"javascript">>, frameworks |-> <<"react">>,
       file_counts |-> (<<".", "j", "s", "x">> :> 5), total_files |-> 5],
      [languages |-> <<"go", "rust", "java">>] }

\* current_workflows: no directory; a workflow of the user; an edited catalog
\* workflow next to a performance workflow left by an earlier run
CurrentWorkflowsChoices ==
    { [exists |-> FALSE, workflows |-> EmptyDict],
      [exists |-> TRUE, workflows |-> EmptyDict],
      [exists |-> TRUE, workflows |-> ("release" :> [content |-> <<"my release steps">>])],
      [exists |-> TRUE,
       workflows |-> ("development" :> [content |-> <<"edited">>]
                      @@ "performance_optimization" :> [content |-> <<"# ", "perf.name">>])] }

WfConfigs ==
    { WithKey(WithKey(EmptyDict, "project_structure", p), "current_workflows", c) :
        p \in Present(WfProjectChoices), c \in Present(CurrentWorkflowsChoices) }

\* performance_issues: absent, empty, and lists with a repeated type and with types
\* that have no line
WfPerformances ==
    { WithKey(EmptyDict, "performance_issues", i) :
        i \in Present({ <<>>, <<[type |-> "memory"]>>,
                        <<[type |-> "cpu"], [type |-> "disk"], [type |-> "cpu"]>>,
                        <<[type |-> "swap"]>>,
                        <<[type |-> "memory"], [type |-> "cpu"], [type |-> "memory"]>> }) }

WorkflowsIdle ==
    /\ wf_performance = <<>> /\ optimized_workflows = <<>> /\ optimizations = 0

InitWorkflows ==
    /\ wf_config \in WfConfigs
    /\ WorkflowsIdle
    /\ pc = "workflows"
    /\ heap = <<>>
    /\ EarlierIdle
    /\ FurtherUnused
    /\ GenerateUnused
    /\ RunUnused

\* optimized_workflows = self.workflow_optimizer.optimize_workflows(...)
OptimizeWorkflows ==
    /\ pc = "workflows"
    /\ optimizations < MaxOptimizations
    /\ \E performance_data \in WfPerformances, now \in {"12:00:00", "12:00:01"} :
          /\ wf_performance' = performance_data
          /\ optimized_workflows' = optimize_workflows(wf_config, performance_data, now)
    /\ optimizations' = optimizations + 1
    /\ pc' = "optimized"
    /\ UNCHANGED <<heap, wf_config, earlierVars, generateVars, runVars, furtherVars>>

\* update_workflows writes a file for each workflow of the result; at the next run
\* _analyze_workflows finds these files and the files that were there before
UpdateWorkflows ==
    /\ pc = "optimized"
    /\ LET current_workflows == GetOr(wf_config, "current_workflows", EmptyDict)
           files == [n \in DOMAIN optimized_workflows |->
                        [content |-> optimized_workflows[n]]]
                    @@ GetOr(current_workflows, "workflows", EmptyDict)
       IN  wf_config' = ("current_workflows" :> [exists |-> TRUE, workflows |-> files])
                        @@ wf_config
    /\ pc' = "workflows"
    /\ UNCHANGED <<heap, wf_performance, optimized_workflows, optimizations, earlierVars,
                   generateVars, runVars, furtherVars>>

NextWorkflows == OptimizeWorkflows \/ UpdateWorkflows

SpecWorkflows == InitWorkflows /\ [][NextWorkflows]_vars

(***************************************************************************)
(* ClineAutoUpdater.run (src/main.py) and the analysis it starts with,     *)
(* ConfigAnalyzer.analyze_current_setup (src/src/config_analyzer.py).      *)
(* A file is a record: state "absent", "unreadable" (read_text raises) or  *)
(* "text"; a text .clinerules has its content, a text settings.json has    *)
(* what json.load makes of it: <<"object", dict>>, <<"array">> for a       *)
(* document that is a list, <<"invalid">> for a text json.load rejects.    *)
(* A function that may raise returns [raised, v].  The keys of a result    *)
(* that no step of run reads (categories, issues, timestamps, paths) are   *)
(* left out.                                                               *)
(***************************************************************************)
\* for line in content.split('\n'): line = line.strip(); if line and not
\* line.startswith('#'): rules.append(line)
RECURSIVE ParseRulesLoop(_)
ParseRulesLoop(st) ==
    IF st.i > Len(st.lines) THEN st.rules
    ELSE LET line == Strip(st.lines[st.i])
         IN  ParseRulesLoop([lines |-> st.lines, i |-> st.i + 1,
                 rules |-> IF line # <<>> /\ ~StartsWith(line, <<"#">>)
                           THEN Append(st.rules, line)
                           ELSE st.rules])

_parse_rules(content) ==
    ParseRulesLoop([lines |-> Split(content, "\n"), i |-> 1, rules |-> <<>>])

_analyze_clinerules(clinerules) ==
    IF clinerules.state = "absent"
    THEN [exists |-> FALSE, content |-> <<>>, rules_count |-> 0]
    ELSE IF clinerules.state = "text"
    THEN [exists |-> TRUE, content |-> clinerules.content,
          rules_count |-> Len(_parse_rules(clinerules.content))]
    ELSE \* except Exception as e
         [exists |-> TRUE, content |-> <<>>, error |-> "read_text"]

\* a directory is "absent" or holds files; a file that cannot be read is skipped
_analyze_workflows(workflows_dir) ==
    IF workflows_dir.state = "absent"
    THEN [exists |-> FALSE, workflows |-> EmptyDict, count |-> 0]
    ELSE LET read == {n \in DOMAIN workflows_dir.files :
                         workflows_dir.files[n].state = "text"}
         IN  [exists |-> TRUE,
              workflows |-> [n \in read |-> [content |-> workflows_dir.files[n].content]],
              count |-> Cardinality(read)]

\* settings = json.load(f)
JsonLoad(file) ==
    IF file.json[1] = "invalid" THEN [raised |-> "JSONDecodeError", v |-> <<>>]
    ELSE [raised |-> "none", v |-> file.json]

_analyze_vscode_settings(settings_json) ==
    IF settings_json.state = "absent"
    THEN [exists |-> FALSE, cline_settings |-> EmptyDict]
    ELSE LET loaded == JsonLoad(settings_json)
         IN  IF loaded.raised = "none" /\ loaded.v[1] = "object"
             THEN LET settings == loaded.v[2]
                      cline_keys == {k \in DOMAIN settings : StartsWith(k, <<"c", "l", "i", "n", "e", ".">>)}
                  IN  [exists |-> TRUE,
                       cline_settings |-> [k \in cline_keys |-> settings[k]],
                       total_settings |-> Cardinality(DOMAIN settings)]
             ELSE \* except Exception as e: json.load raised, or a list has no items()
                  [exists |-> TRUE,
                   error |-> IF loaded.raised = "none" THEN "AttributeError"
                             ELSE loaded.raised]

_determine_project_type(structure) ==
    LET has(language) == \E k \in 1..Len(structure.languages) :
                             structure.languages[k] = language
    IN  IF has("python") THEN "python"
        ELSE IF has("javascript") \/ has("typescript") THEN "web"
        ELSE IF has("java") THEN "java"
        ELSE IF has("rust") THEN "rust"
        ELSE IF has("go") THEN "go"
        ELSE IF has("cpp") THEN "cpp"
        ELSE "unknown"

\* the workspace gives the languages and the number of files that the walk finds
_analyze_project_structure(workspace) ==
    [languages |-> workspace.languages, frameworks |-> <<>>,
     total_files |-> workspace.total_files,
     project_type |-> _determine_project_type(workspace)]

\* config_data[...][...] raises KeyError for a key that is not there
_identify_optimization_opportunities(config_data) ==
    LET current_rules == config_data["current_rules"]
        vscode_settings == config_data["vscode_settings"]
        project_type == config_data["project_structure"]["project_type"]
        about_rules == IF ~current_rules["exists"]
                 THEN <<[type |-> "rules", priority |-> "high"]>>
                 ELSE IF current_rules["rules_count"] < 10
                 THEN <<[type |-> "rules", priority |-> "medium"]>>
                 ELSE <<>>
        about_workflows == IF ~config_data["current_workflows"]["exists"]
                     THEN <<[type |-> "workflows", priority |-> "high"]>>
                     ELSE <<>>
        about_settings == IF Cardinality(DOMAIN vscode_settings["cline_settings"]) < 5
                    THEN <<[type |-> "settings", priority |-> "medium"]>>
                    ELSE <<>>
        about_project == IF project_type # "unknown"
                   THEN <<[type |-> "project_specific", priority |-> "high"]>>
                   ELSE <<>>
    IN  IF current_rules["exists"] /\ "rules_count" \notin DOMAIN current_rules
        THEN [raised |-> "KeyError", v |-> <<>>]
        ELSE IF "cline_settings" \notin DOMAIN vscode_settings
        THEN [raised |-> "KeyError", v |-> <<>>]
        ELSE [raised |-> "none", v |-> about_rules \o about_workflows \o about_settings
                                  \o about_project]

analyze_current_setup(files, workspace) ==
    LET config_data ==
            [current_rules |-> _analyze_clinerules(files.clinerules),
             current_workflows |-> _analyze_workflows(files.workflows_dir),
             vscode_settings |-> _analyze_vscode_settings(files.settings_json),
             project_structure |-> _analyze_project_structure(workspace),
             optimization_opportunities |-> <<>>]
        opportunities == _identify_optimization_opportunities(config_data)
    IN  IF opportunities.raised = "none"
        THEN [raised |-> "none",
              v |-> [config_data EXCEPT !["optimization_opportunities"] = opportunities.v]]
        ELSE [raised |-> opportunities.raised, v |-> <<>>]

\* steps 2 to 5 of run on the result of the analysis: collect_metrics,
\* generate_improved_rules, optimize_workflows and generate_adaptive_config read
\* config_data with .get and a default, but for project_info['project_type']
\* (rules_generator.py, lines 314-315)
SynthesisRaises(config_data) ==
    IF "project_type" \notin DOMAIN GetOr(config_data, "project_structure", EmptyDict)
    THEN "KeyError"
    ELSE "none"

\* update_vscode_settings: the file is loaded again; settings["cline...."] = value
\* needs a dict
update_vscode_settings(settings_json) ==
    IF settings_json.state = "absent" THEN "none"
    ELSE LET loaded == JsonLoad(settings_json)
         IN  IF loaded.raised # "none" THEN loaded.raised
             ELSE IF loaded.v[1] # "object" THEN "TypeError"
             ELSE "none"

(***************************************************************************)
(* Scenario 6: one run of ClineAutoUpdater.run over the files found.       *)
(***************************************************************************)
ClinerulesFiles ==
    { [state |-> "absent"], [state |-> "unreadable"],
      [state |-> "text", content |-> <<>>],
      [state |-> "text", content |-> <<"#", " ", "M", "i", "n", "e", "\n", "\n", "K", "e", "e", "p", " ", "s", "t", "y", "l", "e", " ", "d", "o", "c", "s", "\n">>],
      [state |-> "text", content |-> <<"a", "\n", "b", "\n", "c", "\n", "d", "\n", "e", "\n", "f", "\n", "g", "\n", "h", "\n", "i", "\n", "j", "\n", "k">>] }

SettingsFiles ==
    { [state |-> "absent"],
      [state |-> "text", json |-> <<"invalid">>],
      [state |-> "text", json |-> <<"array">>],
      [state |-> "text", json |-> <<"object", EmptyDict>>],
      [state |-> "text",
       json |-> <<"object", (<<"e", "d", "i", "t", "o", "r", ".", "t", "a", "b", "S", "i", "z", "e">> :> "4") @@ (<<"c", "l", "i", "n", "e", ".", "m", "o", "d", "e", "l">> :> "m")>>],
      [state |-> "text",
       json |-> <<"object", (<<"c", "l", "i", "n", "e", ".", "a">> :> "1") @@ (<<"c", "l", "i", "n", "e", ".", "b">> :> "2")
                            @@ (<<"c", "l", "i", "n", "e", ".", "c">> :> "3") @@ (<<"c", "l", "i", "n", "e", ".", "d">> :> "4")
                            @@ (<<"c", "l", "i", "n", "e", ".", "e">> :> "5") @@ (<<"c", "l", "i", "n", "e", "x">> :> "6")>>] }

WorkflowDirs ==
    { [state |-> "absent"],
      [state |-> "dir", files |-> EmptyDict],
      [state |-> "dir",
       files |-> ("release" :> [state |-> "text", content |-> <<"my release steps">>])
                 @@ ("broken" :> [state |-> "unreadable"])] }

Workspaces ==
    { [languages |-> <<>>, total_files |-> 0],
      [languages |-> <<"python">>, total_files |-> 12],
      [languages |-> <<"go", "typescript">>, total_files |-> 60] }

RunIdle ==
    /\ run_config = <<>> /\ run_exception = "none" /\ run_written = {}
    /\ exit_status = "none"

InitRun ==
    /\ run_files \in [clinerules : ClinerulesFiles, settings_json : SettingsFiles,
                      workflows_dir : WorkflowDirs]
    /\ run_workspace \in Workspaces
    /\ RunIdle
    /\ pc = "run"
    /\ heap = <<>>
    /\ EarlierIdle
    /\ FurtherUnused
    /\ GenerateUnused
    /\ WorkflowsUnused

\* 1. current_config = self.config_analyzer.analyze_current_setup(...)
AnalyzeCurrentSetup ==
    /\ pc = "run"
    /\ \E out \in {analyze_current_setup(run_files, run_workspace)} :
          /\ run_config' = out.v
          /\ run_exception' = out.raised
          /\ pc' = IF out.raised = "none" THEN "run_analyzed" ELSE "run_raised"
    /\ UNCHANGED <<heap, run_files, run_workspace, run_written, exit_status, earlierVars,
                   generateVars, workflowVars, furtherVars>>

\* 2. to 5. performance_data, improved_rules, optimized_workflows, adaptive_config
Synthesize ==
    /\ pc = "run_analyzed"
    /\ run_exception' = SynthesisRaises(run_config)
    /\ pc' = IF SynthesisRaises(run_config) = "none" THEN "run_synthesized"
             ELSE "run_raised"
    /\ UNCHANGED <<heap, run_files, run_workspace, run_config, run_written, exit_status,
                   earlierVars, generateVars, workflowVars, furtherVars>>

\* 6. self.apply_improvements(improved_rules, optimized_workflows, adaptive_config)
ApplyImprovements ==
    /\ pc = "run_synthesized"
    /\ \E failure \in {update_vscode_settings(run_files.settings_json)} :
          /\ run_written' = {".clinerules", "workflows"}
                            \cup (IF failure = "none" THEN {"settings.json"} ELSE {})
          /\ run_exception' = failure
          /\ pc' = IF failure = "none" THEN "run_applied" ELSE "run_raised"
    /\ UNCHANGED <<heap, run_files, run_workspace, run_config, exit_status, earlierVars,
                   generateVars, workflowVars, furtherVars>>

\* 7. self.performance_tracker.save_session_data(performance_data), and the return
SaveSessionData ==
    /\ pc = "run_applied"
    /\ pc' = "run_done"
    /\ exit_status' = "0"
    /\ UNCHANGED <<heap, run_files, run_workspace, run_config, run_exception, run_written,
                   earlierVars, generateVars, workflowVars, furtherVars>>

\* except Exception as e: self.logger.error(...); sys.exit(1)
FailureExit ==
    /\ pc = "run_raised"
    /\ pc' = "run_exit"
    /\ exit_status' = "1"
    /\ UNCHANGED <<heap, run_files, run_workspace, run_config, run_exception, run_written,
                   earlierVars, generateVars, workflowVars, furtherVars>>

NextRun ==
    AnalyzeCurrentSetup \/ Synthesize \/ ApplyImprovements \/ SaveSessionData
    \/ FailureExit

SpecRun == InitRun /\ [][NextRun]_vars

(***************************************************************************)
(* All scenarios together.                                                 *)
(***************************************************************************)
(***************************************************************************)
(* Scenario 7: two callers share one AdaptiveSettings, one RulesGenerator  *)
(* and one WorkflowOptimizer.  Each caller makes one call on a snapshot of *)
(* its own; the calls run statement by statement and in any interleaving.  *)
(* The heap is shared: it holds the catalogs of the AdaptiveSettings       *)
(* instance and what the adaptive calls allocate.  The catalogs of the     *)
(* other two instances are only read (sliced and iterated) and are the     *)
(* constants base_rules ... framework_workflows.  clock is the last        *)
(* reading of datetime.now(); a later reading is the same or later.        *)
(***************************************************************************)
Callers == {1, 2}

\* frameworks.extend(detected): frameworks is the snapshot's own list when the
\* snapshot has one, and a fresh [] otherwise
ExtendFrameworks(config_data, detected) ==
    IF "project_structure" \in DOMAIN config_data
       /\ "frameworks" \in DOMAIN config_data["project_structure"]
    THEN [config_data EXCEPT !["project_structure"]["frameworks"] = @ \o detected]
    ELSE config_data

Instants == {"earlier", "later"}
NotBefore(c) == IF c = "earlier" THEN Instants ELSE {"later"}
\* datetime.now(), formatted as the rules document and as the workflows show it
RulesNow(c) == IF c = "earlier" THEN <<"2", "0", "2", "4", "-", "0", "1", "-", "0", "1", " ", "0", "0", ":", "0", "0", ":", "0", "0">> ELSE <<"2", "0", "2", "4", "-", "1", "2", "-", "3", "1", " ", "2", "3", ":", "5", "9", ":", "5", "9">>
WorkflowsNow(c) == IF c = "earlier" THEN "12:00:00" ELSE "12:00:01"

\* the number of statements of each call
LastStatement(kind) ==
    CASE kind = "adaptive" -> 7 [] kind = "rules" -> 8 [] kind = "workflows" -> 5
Finished(t) == t.at > LastStatement(t.kind)

\* statement n of generate_adaptive_config (lines 141-175) on the shared heap
AdaptiveStatement(n, h, slf, t) ==
    LET acc == [h |-> h, v |-> t.acc, layers |-> <<>>]
    IN  CASE n = 1 -> StartFromDefaults(_deep_copy(h, slf.default_settings))
          [] n = 2 -> WithProjectType(acc, slf, t.config)
          [] n = 3 -> WithPerformance(acc, slf, t.performance)
          [] n = 4 -> WithProjectScale(acc, slf, t.config)
          [] n = 5 -> WithUsagePatterns(acc, slf, t.config, t.performance)
          [] n = 6 -> WithUserSettings(acc, slf, t.config)
          [] n = 7 -> WithVscodeConfig(acc, slf, t.config)

\* statement n of generate_improved_rules (lines 130-154)
RulesStatement(n, t, now) ==
    CASE n = 1 -> [t EXCEPT !.acc = _select_base_rules(t.config, t.performance)]
      [] n = 2 -> [t EXCEPT !.acc = @ \o _select_language_rules(t.config)]
      [] n = 3 -> [t EXCEPT !.acc = @ \o _select_framework_rules(t.config),
                            !.config = ExtendFrameworks(
                                           @, _detect_specific_frameworks(t.config))]
      [] n = 4 -> [t EXCEPT !.acc = @ \o _generate_adaptive_rules(t.performance)]
      [] n = 5 -> [t EXCEPT !.acc = @ \o _preserve_custom_rules(t.config)]
      [] n = 6 -> [t EXCEPT !.acc = _remove_duplicates(@)]
      [] n = 7 -> [t EXCEPT !.acc = _prioritize_rules(@)]
      [] n = 8 -> [t EXCEPT !.result = _format_rules_file(t.acc, t.config, now)]

\* statement n of optimize_workflows (lines 216-235); d.update(e) is e @@ d
WorkflowsStatement(n, t, now) ==
    CASE n = 1 -> [t EXCEPT !.acc = _select_base_workflows(t.config, now)]
      [] n = 2 -> [t EXCEPT !.acc = _select_language_workflows(t.config, now) @@ @]
      [] n = 3 -> [t EXCEPT !.acc = _select_framework_workflows(t.config, now) @@ @,
                            !.config = ExtendFrameworks(
                                           @, _detect_frameworks_from_files(t.config))]
      [] n = 4 -> [t EXCEPT !.acc = _preserve_custom_workflows(t.config) @@ @]
      [] n = 5 -> [t EXCEPT !.result =
                       _adapt_workflows_for_performance(t.acc, t.performance, now)]

\* the snapshots the callers bring: the first caller's are full, the second's sparse
FirstCalls ==
    { <<"adaptive",
        <<ConfigData(D("languages" :> L(<<S("javascript"), S("python")>>) @@
                       "project_type" :> S("python") @@
                       "frameworks" :> L(<<S("react")>>) @@ "total_files" :> I(101)),
                     Absent,
                     D("cline_settings" :> D("autoApprove" :> B(TRUE)))),
          D("system_metrics" :> D("memory" :> D("percent" :> I(85))) @@
            "performance_issues" :>
                L(<<D("type" :> S("memory") @@ "severity" :> S("high"))>>))>> >>,
      <<"rules",
        <<("project_structure" :>
              [project_type |-> <<"w", "e", "b">>, languages |-> <<<<"j", "a", "v", "a", "s", "c", "r", "i", "p", "t">>, <<"g", "o">>>>,
               frameworks |-> <<<<"r", "e", "a", "c", "t">>>>, file_counts |-> (<<".", "j", "s">> :> 2),
               total_files |-> 2])
          @@ ("current_rules" :>
              [exists |-> TRUE, content |-> <<"#", " ", "R", "u", "l", "e", "s", "\n", "K", "e", "e", "p", " ", "s", "t", "y", "l", "e", " ", "g", "u", "i", "d", "e", "s", " ", "s", "h", "o", "r", "t">>,
               rules_count |-> 0]),
          ("performance_issues" :> <<[type |-> "memory", severity |-> "high"]>>)>> >>,
      <<"workflows",
        <<("project_structure" :>
              [languages |-> <<"python">>, frameworks |-> <<"django">>,
               file_counts |-> (<<".", "p", "y">> :> 4 @@ <<".", "t", "e", "s", "t", ".", "p", "y">> :> 1),
               total_files |-> 51])
          @@ ("current_workflows" :>
              [exists |-> TRUE,
               workflows |-> ("release" :> [content |-> <<"my release steps">>])]),
          ("performance_issues" :> <<[type |-> "memory"]>>)>> >> }
SecondCalls ==
    { <<"adaptive",
        <<ConfigData(D("languages" :> L(<<S("go"), S("javascript")>>) @@
                       "total_files" :> I(50)),
                     Absent, Absent),
          D("system_metrics" :>
                D("memory" :> D("percent" :> I(50) @@ "total" :> I(4 * GiB - 1))))>> >>,
      <<"rules", <<("project_structure" :> [project_type |-> <<"l", "i", "b", "r", "a", "r", "y">>]), EmptyDict>> >>,
      <<"workflows", <<EmptyDict, EmptyDict>> >> }
Calls == FirstCalls \cup SecondCalls

\* a caller about to make its call: the snapshot of an adaptive call is put on
\* the shared heap, the other snapshots are the caller's own values
Caller(call, config, performance) ==
    [kind |-> call[1], at |-> 1, config |-> config, performance |-> performance,
     given |-> call[2], acc |-> <<>>, result |-> <<>>]
Arrive(h, call) ==
    IF call[1] = "adaptive"
    THEN LET d == Store(h, call[2][1])
             e == Store(d.h, call[2][2])
         IN  [h |-> e.h, t |-> Caller(call, d.v, e.v)]
    ELSE [h |-> h, t |-> Caller(call, call[2][1], call[2][2])]

InitConcurrent ==
    /\ \E first \in FirstCalls, second \in SecondCalls :
       \E a \in {Arrive(NewAdaptiveSettings.h, first)} :
       \E b \in {Arrive(a.h, second)} :
          /\ heap = b.h
          /\ threads = <<a.t, b.t>>
    /\ clock = "earlier"
    /\ pc = "concurrent"
    /\ EarlierIdle
    /\ GenerateUnused
    /\ WorkflowsUnused
    /\ RunUnused
    /\ BootUnused
    /\ RegenerateUnused
    /\ RoundTripUnused

\* a caller inside generate_adaptive_config runs its next statement
AdaptiveStep(c) ==
    /\ pc = "concurrent"
    /\ threads[c].kind = "adaptive"
    /\ ~Finished(threads[c])
    /\ \E out \in {AdaptiveStatement(threads[c].at, heap, NewAdaptiveSettings.v,
                                     threads[c])} :
          /\ heap' = out.h
          /\ threads' = [threads EXCEPT ![c].acc = out.v,
                                        ![c].result = IF threads[c].at = 7
                                                      THEN out.v ELSE @,
                                        ![c].at = @ + 1]
    /\ UNCHANGED <<pc, clock, earlierVars, generateVars, workflowVars, runVars,
                   bootVars, regenerateVars,
                   roundTripVars>>

\* a caller inside generate_improved_rules runs its next statement
RulesStep(c) ==
    /\ pc = "concurrent"
    /\ threads[c].kind = "rules"
    /\ ~Finished(threads[c])
    /\ \E now \in (IF threads[c].at = 8 THEN NotBefore(clock) ELSE {clock}) :
       \E out \in {RulesStatement(threads[c].at, threads[c], RulesNow(now))} :
          /\ threads' = [threads EXCEPT ![c] = [out EXCEPT !.at = @ + 1]]
          /\ clock' = now
    /\ UNCHANGED <<heap, pc, earlierVars, generateVars, workflowVars, runVars,
                   bootVars, regenerateVars,
                   roundTripVars>>

\* a caller inside optimize_workflows runs its next statement
WorkflowsStep(c) ==
    /\ pc = "concurrent"
    /\ threads[c].kind = "workflows"
    /\ ~Finished(threads[c])
    /\ \E now \in (IF threads[c].at = 4 THEN {clock} ELSE NotBefore(clock)) :
       \E out \in {WorkflowsStatement(threads[c].at, threads[c], WorkflowsNow(now))} :
          /\ threads' = [threads EXCEPT ![c] = [out EXCEPT !.at = @ + 1]]
          /\ clock' = now
    /\ UNCHANGED <<heap, pc, earlierVars, generateVars, workflowVars, runVars,
                   bootVars, regenerateVars,
                   roundTripVars>>

NextConcurrent ==
    \/ \E c \in Callers : AdaptiveStep(c)
    \/ \E c \in Callers : RulesStep(c)
    \/ \E c \in Callers : WorkflowsStep(c)

SpecConcurrent == InitConcurrent /\ [][NextConcurrent]_vars

\* the same call made alone on fresh instances, at either instant
RunAlone(call, c) ==
    CASE call[1] = "adaptive" ->
           LET a == Arrive(NewAdaptiveSettings.h, call)
               g == generate_adaptive_config(a.h, NewAdaptiveSettings.v, a.t.config,
                                             a.t.performance)
           IN  Deref(g.h, g.v)
      [] call[1] = "rules" ->
           LET g == generate_improved_rules(call[2][1], call[2][2], RulesNow(c))
           IN  [raised |-> g.raised, v |-> g.v]
      [] call[1] = "workflows" ->
           optimize_workflows(call[2][1], call[2][2], WorkflowsNow(c))
AloneResults == {<<call, c, RunAlone(call, c)>> : call \in Calls, c \in Instants}
Alone(t, c) ==
    (CHOOSE p \in AloneResults :
        p[1][1] = t.kind /\ p[1][2] = t.given /\ p[2] = c)[3]


(***************************************************************************)
(* Scenario 8: interpreters that import sitecustomize at start-up.  Every  *)
(* interpreter is a process with its own os.environ and its own -i flag;   *)
(* it runs _bootstrap statement by statement, and once its start-up is     *)
(* over it may start a nested interpreter, which inherits os.environ as it *)
(* is then.  The updater runs _run_autoupdater where                       *)
(* _start_background_thread put it.                                        *)
(***************************************************************************)
MaxInterpreters == 3

_DISABLE_ENV == "CLINE_NO_AUTOUPDATE"
_SENTINEL_ENV == "CLINE_AUTOUPDATE_RUNNING"

\* the environments an outermost interpreter is started in: each variable is
\* unset, set to the empty string, or set to "1"
Environments ==
    UNION {[names -> {"", "1"}] : names \in SUBSET {_DISABLE_ENV, _SENTINEL_ENV}}

\* if os.environ.get(name): the variable is there and its value is not empty
EnvironGet(environ, name) == name \in DOMAIN environ /\ environ[name] # ""

\* python starts: the process gets the environment, and site imports sitecustomize
NewInterpreter(parent, environ, interactive) ==
    [parent |-> parent, inherited |-> environ, environ |-> environ,
     interactive |-> interactive, at |-> "sentinel_check", updater |-> "none",
     runs_in |-> "none", main |-> "running"]

\* a variant that calls the updater in the thread that imports sitecustomize
RunInMainThread(p) ==
    [p EXCEPT !.updater = "import", !.runs_in = "MainThread"]
\* thread = threading.Thread(target=_run_autoupdater, name="cline-autoupdater",
\*                           daemon=True); thread.start()
_start_background_thread(p) ==
    [p EXCEPT !.updater = "import", !.runs_in = "cline-autoupdater"]

\* a variant that sets the sentinel only when it starts the updater
BootstrapSentinelLast(p) ==
    CASE p.at = "sentinel_check" ->
           [p EXCEPT !.at = IF EnvironGet(p.environ, _SENTINEL_ENV)
                            THEN "done" ELSE "disable_check"]
      [] p.at = "disable_check" ->
           [p EXCEPT !.at = IF EnvironGet(p.environ, _DISABLE_ENV)
                            THEN "done" ELSE "interactive_check"]
      [] p.at = "interactive_check" ->
           [p EXCEPT !.at = IF p.interactive THEN "done" ELSE "set_sentinel"]
      [] p.at = "set_sentinel" ->
           [p EXCEPT !.environ = (_SENTINEL_ENV :> "1") @@ @, !.at = "start"]
      [] p.at = "start" ->
           [_start_background_thread(p) EXCEPT !.at = "done"]
\* the statement of _bootstrap the interpreter is at
_bootstrap(p) ==
    CASE p.at = "sentinel_check" ->
           [p EXCEPT !.at = IF EnvironGet(p.environ, _SENTINEL_ENV)
                            THEN "done" ELSE "set_sentinel"]
      [] p.at = "set_sentinel" ->
           [p EXCEPT !.environ = (_SENTINEL_ENV :> "1") @@ @, !.at = "disable_check"]
      [] p.at = "disable_check" ->
           [p EXCEPT !.at = IF EnvironGet(p.environ, _DISABLE_ENV)
                            THEN "done" ELSE "interactive_check"]
      [] p.at = "interactive_check" ->
           [p EXCEPT !.at = IF p.interactive THEN "done" ELSE "start"]
      [] p.at = "start" ->
           [_start_background_thread(p) EXCEPT !.at = "done"]

\* what a statement of _run_autoupdater can do: go on, or raise
Outcomes(statement) ==
    CASE statement = "import" -> {"module", "module without ClineAutoUpdater", "Exception"}
      [] statement = "construct" -> {"instance", "Exception"}
      [] statement = "run" -> {"returned", "SystemExit"}

\* an exception leaves _run_autoupdater: in a thread of its own the thread ends
\* (threading ignores SystemExit), in the main thread the interpreter exits
Unhandled(p) ==
    IF p.runs_in = "MainThread"
    THEN [p EXCEPT !.updater = "exited", !.main = "terminated"]
    ELSE [p EXCEPT !.updater = "exited"]

\* _run_autoupdater: the statement the updater is at, with its outcome
_run_autoupdater(p, outcome) ==
    CASE outcome = "Exception" -> [p EXCEPT !.updater = "logged"]
      [] outcome = "SystemExit" -> Unhandled(p)
      [] outcome = "module without ClineAutoUpdater" -> [p EXCEPT !.updater = "skipped"]
      [] outcome = "module" -> [p EXCEPT !.updater = "construct"]
      [] outcome = "instance" -> [p EXCEPT !.updater = "run"]
      [] outcome = "returned" -> [p EXCEPT !.updater = "finished"]

InitBoot ==
    /\ \E environ \in Environments, interactive \in BOOLEAN :
          interpreters = <<NewInterpreter(0, environ, interactive)>>
    /\ pc = "boot"
    /\ heap = <<>>
    /\ EarlierIdle
    /\ GenerateUnused
    /\ WorkflowsUnused
    /\ RunUnused
    /\ ConcurrentUnused
    /\ RegenerateUnused
    /\ RoundTripUnused

\* the interpreter runs the next statement of _bootstrap
Bootstrap(i) ==
    /\ pc = "boot"
    /\ interpreters[i].main = "running"
    /\ interpreters[i].at # "done"
    /\ interpreters' = [interpreters EXCEPT ![i] = _bootstrap(@)]
    /\ UNCHANGED <<heap, pc, earlierVars, generateVars, workflowVars, runVars,
                   concurrentVars, regenerateVars,
                   roundTripVars>>

\* the updater runs its next statement
RunAutoupdater(i) ==
    /\ pc = "boot"
    /\ interpreters[i].main = "running"
    /\ interpreters[i].updater \in {"import", "construct", "run"}
    /\ \E outcome \in Outcomes(interpreters[i].updater) :
          interpreters' = [interpreters EXCEPT ![i] = _run_autoupdater(@, outcome)]
    /\ UNCHANGED <<heap, pc, earlierVars, generateVars, workflowVars, runVars,
                   concurrentVars, regenerateVars,
                   roundTripVars>>

\* the program of an interpreter whose start-up is over starts a nested interpreter
StartNested(i) ==
    /\ pc = "boot"
    /\ interpreters[i].main = "running"
    /\ interpreters[i].at = "done"
    /\ Len(interpreters) < MaxInterpreters
    /\ \E interactive \in BOOLEAN :
          interpreters' = Append(interpreters,
                                 NewInterpreter(i, interpreters[i].environ, interactive))
    /\ UNCHANGED <<heap, pc, earlierVars, generateVars, workflowVars, runVars,
                   concurrentVars, regenerateVars,
                   roundTripVars>>

\* the program of the interpreter ends; a daemon thread ends with it
MainThreadEnds(i) ==
    /\ pc = "boot"
    /\ interpreters[i].main = "running"
    /\ interpreters[i].at = "done"
    /\ interpreters' =
          [interpreters EXCEPT ![i].main = "finished",
                               ![i].updater = IF @ \in {"import", "construct", "run"}
                                              THEN "killed" ELSE @]
    /\ UNCHANGED <<heap, pc, earlierVars, generateVars, workflowVars, runVars,
                   concurrentVars, regenerateVars,
                   roundTripVars>>

NextBoot ==
    \E i \in 1..MaxInterpreters :
        /\ i <= Len(interpreters)
        /\ \/ Bootstrap(i)
           \/ RunAutoupdater(i)
           \/ StartNested(i)
           \/ MainThreadEnds(i)

SpecBoot == InitBoot /\ [][NextBoot]_vars

(***************************************************************************)
(* Scenario 9: successive runs on one workspace.  A run generates the      *)
(* rules document from the snapshot; the document is written to            *)
(* .clinerules, and the next run reads it back as current_rules of a       *)
(* snapshot that is otherwise the same.                                    *)
(***************************************************************************)
MaxRegenerations == 1

RegenerateInputs ==
    RulesConfigs({<<"present", [project_type |-> <<"l", "i", "b", "r", "a", "r", "y">>]>>,
                  <<"present", [project_type |-> <<"w", "e", "b">>,
                                languages |-> <<<<"j", "a", "v", "a", "s", "c", "r", "i", "p", "t">>, <<"g", "o">>>>,
                                frameworks |-> <<<<"r", "e", "a", "c", "t">>>>,
                                file_counts |-> (<<".", "j", "s">> :> 2), total_files |-> 2]>>,
                  <<"present", [project_type |-> <<"b", "a", "c", "k", "e", "n", "d">>,
                                languages |-> <<<<"p", "y", "t", "h", "o", "n">>>>,
                                frameworks |-> <<<<"d", "j", "a", "n", "g", "o">>>>,
                                file_counts |-> (<<".", "p", "y">> :> 3), total_files |-> 3]>>},
                 {Absent,
                  <<"present", [exists |-> TRUE,
                                content |-> <<"#", " ", "M", "i", "n", "e", "\n", "\n", "U", "s", "e", " ", "O", "A", "u", "t", "h", " ", "t", "o", "k", "e", "n", "s", "\n">>,
                                rules_count |-> 1]>>})
    \X {EmptyDict, ("performance_issues" :> <<[type |-> "memory", severity |-> "high"]>>)}

InitRegenerate ==
    /\ \E input \in RegenerateInputs :
          /\ rules_config = input[1]
          /\ rules_performance = input[2]
    /\ GenerateIdle
    /\ regenerations = 0
    /\ pc = "regenerate"
    /\ heap = <<>>
    /\ EarlierIdle
    /\ WorkflowsUnused
    /\ RunUnused
    /\ ConcurrentUnused
    /\ BootUnused
    /\ RoundTripUnused

\* run: improved_rules = self.rules_generator.generate_improved_rules(
\*          current_config, performance_data)
RegenerateRules ==
    /\ pc = "regenerate"
    /\ \E now \in Timestamps :
       \E out \in {generate_improved_rules(rules_config, rules_performance, now)} :
          /\ candidates' = out.candidates
          /\ deduplicated' = out.unique
          /\ selected_rules' = out.selected
          /\ raised' = out.raised
          /\ rules_content' = out.v
          /\ pc' = IF out.raised = "none" THEN "regenerated" ELSE "raised"
    /\ UNCHANGED <<heap, rules_config, rules_performance, regenerations, earlierVars,
                   workflowVars, runVars, concurrentVars, bootVars,
                   roundTripVars>>

\* update_clinerules(rules) writes the document; the next run's
\* _analyze_clinerules reads it as current_rules
UpdateClinerules ==
    /\ pc = "regenerated"
    /\ regenerations < MaxRegenerations
    /\ rules_config' =
          ("current_rules" :> _analyze_clinerules([state |-> "text",
                                                   content |-> rules_content]))
          @@ rules_config
    /\ regenerations' = regenerations + 1
    /\ pc' = "regenerate"
    /\ UNCHANGED <<heap, rules_performance, candidates, deduplicated, selected_rules,
                   rules_content, raised, earlierVars, workflowVars, runVars,
                   concurrentVars, bootVars,
                   roundTripVars>>

NextRegenerate == RegenerateRules \/ UpdateClinerules

SpecRegenerate == InitRegenerate /\ [][NextRegenerate]_vars

(***************************************************************************)
(* Scenario 10: settings.json between two runs.  The file holds what       *)
(* update_vscode_settings wrote for the user's values; the next run reads  *)
(* it with _analyze_vscode_settings, generates the adaptive configuration  *)
(* from the snapshot and writes the file again.  A key of the file is the  *)
(* sequence of its letters, a key of a settings dict is a string: Text and *)
(* Letters go from one to the other.                                       *)
(***************************************************************************)
RECURSIVE Text(_)
Text(letters) == IF letters = <<>> THEN "" ELSE Head(letters) \o Text(Tail(letters))
Letters(text) == [i \in 1..Len(text) |-> SubSeq(text, i, i)]

\* for key, value in cline_settings.items(): settings[f"cline.{key}"] = value
ClineKeys(settings, cline_settings) ==
    LET written == {<<"c", "l", "i", "n", "e", ".">> \o Letters(key) : key \in DOMAIN cline_settings}
    IN  [k \in written \cup DOMAIN settings |->
            IF k \in written THEN cline_settings[Text(SubSeq(k, 7, Len(k)))]
            ELSE settings[k]]

\* update_vscode_settings(config) on a file that is absent or holds an object:
\* the file as json.dump leaves it
WrittenSettings(settings_json, cline_settings) ==
    [state |-> "text",
     json |-> <<"object",
                ClineKeys(IF settings_json.state = "absent" THEN EmptyDict
                          ELSE JsonLoad(settings_json).v[2],
                          cline_settings)>>]

\* what _analyze_vscode_settings returned, as the tree of the snapshot
SettingsTree(analysis) ==
    D("exists" :> B(analysis.exists)
      @@ "cline_settings" :>
            D([key \in {Text(k) : k \in DOMAIN analysis.cline_settings} |->
                  analysis.cline_settings[Letters(key)]])
      @@ (IF "total_settings" \in DOMAIN analysis
          THEN "total_settings" :> I(analysis.total_settings) ELSE EmptyItems))

\* the values a user gives to the settings that are to be preserved
UserValues ==
    {Opt("customInstructions", ci) @@ Opt("preferredLanguage", pl) @@ Opt("autoApprove", aa) :
        ci \in {Absent, S("be brief")}, pl \in {Absent, S("en")},
        aa \in {Absent, B(TRUE), B(FALSE)}}

\* the rest of the snapshot of the next run
RoundTripSnapshots ==
    {<<Absent, D(EmptyItems)>>,
     <<D("languages" :> L(<<S("python")>>) @@ "project_type" :> S("python") @@
         "total_files" :> I(101)),
       D("system_metrics" :> D("memory" :> D("percent" :> I(85))))>>,
     <<D("languages" :> L(<<S("go"), S("javascript")>>)),
       D("performance_issues" :>
             L(<<D("type" :> S("cpu") @@ "severity" :> S("high"))>>))>>}

InitRoundTrip ==
    /\ \E user \in UserValues, others \in {EmptyDict, (<<"e", "d", "i", "t", "o", "r", ".", "t", "a", "b", "S", "i", "z", "e">> :> I(4))} :
          settings_file =
              WrittenSettings([state |-> "text", json |-> <<"object", others>>], user)
    /\ heap = NewAdaptiveSettings.h
    /\ self = NewAdaptiveSettings.v
    /\ current_config = NoRef
    /\ perf_snapshot = NoRef
    /\ returned_config = NoRef
    /\ layers = <<>>
    /\ previous = NoRef
    /\ calls = 0
    /\ pc = "settings"
    /\ MergeIdle
    /\ RulesIdle
    /\ GenerateUnused
    /\ WorkflowsUnused
    /\ RunUnused
    /\ ConcurrentUnused
    /\ BootUnused
    /\ RegenerateUnused

\* run: current_config = self.config_analyzer.analyze_current_setup(...), with
\* 'vscode_settings': self._analyze_vscode_settings(...)
AnalyzeSettings ==
    /\ pc = "settings"
    /\ \E sn \in RoundTripSnapshots :
       \E d \in {Store(heap, ConfigData(sn[1], Absent,
                                        SettingsTree(_analyze_vscode_settings(settings_file))))} :
       \E e \in {Store(d.h, sn[2])} :
          /\ heap' = e.h
          /\ current_config' = d.v
          /\ perf_snapshot' = e.v
    /\ pc' = "settings_analyzed"
    /\ UNCHANGED <<settings_file, self, returned_config, layers, previous, calls,
                   mergeVars, rulesVars, generateVars, workflowVars, runVars,
                   concurrentVars, bootVars, regenerateVars>>

\* run: adaptive_config = self.adaptive_settings.generate_adaptive_config(...)
GenerateFromSettings ==
    /\ pc = "settings_analyzed"
    /\ \E g \in {generate_adaptive_config(heap, self, current_config, perf_snapshot)} :
          /\ heap' = g.h
          /\ returned_config' = g.v
          /\ layers' = g.layers
    /\ calls' = calls + 1
    /\ pc' = "settings_generated"
    /\ UNCHANGED <<settings_file, self, current_config, perf_snapshot, previous,
                   mergeVars, rulesVars, generateVars, workflowVars, runVars,
                   concurrentVars, bootVars, regenerateVars>>

\* apply_improvements: self.update_vscode_settings(config)
UpdateVscodeSettings ==
    /\ pc = "settings_generated"
    /\ settings_file' =
          WrittenSettings(settings_file,
                          Deref(heap, returned_config)[2]["cline_settings"][2])
    /\ pc' = "settings_written"
    /\ UNCHANGED <<heap, adaptiveVars, mergeVars, rulesVars, generateVars, workflowVars,
                   runVars, concurrentVars, bootVars, regenerateVars>>

NextRoundTrip == AnalyzeSettings \/ GenerateFromSettings \/ UpdateVscodeSettings

SpecRoundTrip == InitRoundTrip /\ [][NextRoundTrip]_vars

Init == InitMerge \/ InitAdaptive \/ InitRules \/ InitGenerate \/ InitWorkflows
        \/ InitRun \/ InitConcurrent \/ InitBoot \/ InitRegenerate
        \/ InitRoundTrip

Next == NextMerge \/ NextAdaptive \/ NextRules \/ NextGenerate \/ NextWorkflows
        \/ NextRun \/ NextConcurrent \/ NextBoot \/ NextRegenerate
        \/ NextRoundTrip

Spec == Init /\ [][Next]_vars

(***************************************************************************)
(* Properties of _merge_settings.                                          *)
(***************************************************************************)
Merged == pc \in {"merged", "again"}

\* C2: after result = _merge_settings(base, overlay), and whatever is done to the
\* result afterwards, base and overlay are structurally what they were before the
\* call, and no mapping or sequence of the result is one of base or of overlay.
C2_InputsUntouchedAndUnshared ==
    Merged =>
        /\ Deref(heap, base) = before.base
        /\ Deref(heap, update) = before.update
        /\ Reach(heap, result) \cap (Reach(heap, base) \cup Reach(heap, update)) = {}

\* the result was changed in place, in a sequence nested in a mapping that came from
\* the overlay alone, and in a mapping that came from the base alone
C2_Witness ==
    /\ pc = "merged"
    /\ changes = 1
    /\ before.base = D("a" :> D("a" :> D("b" :> I(1))))
    /\ before.update = D("b" :> L(<<I(2), D("a" :> I(1))>>))
    /\ Deref(heap, result) = D("a" :> D("a" :> D("b" :> I(1) @@ "z" :> I(9)))
                               @@ "b" :> L(<<I(2), D("a" :> I(1))>>))

\* the merge contract on trees: r is the merge of the mappings b and u
RECURSIVE MergedAsClaimed(_, _, _)
MergedAsClaimed(r, b, u) ==
    /\ IsDictTree(r)
    /\ DOMAIN r[2] = DOMAIN b[2] \cup DOMAIN u[2]
    /\ \A k \in DOMAIN r[2] :
          IF k \notin DOMAIN u[2] THEN r[2][k] = b[2][k]
          ELSE IF k \notin DOMAIN b[2] THEN r[2][k] = u[2][k]
          ELSE IF IsDictTree(b[2][k]) /\ IsDictTree(u[2][k])
               THEN MergedAsClaimed(r[2][k], b[2][k], u[2][k])
               ELSE r[2][k] = u[2][k]

\* C3: the keys of _merge_settings(base, overlay) are the union of the keys of both;
\* a key of one side carries that side's value; a key of both carries the recursive
\* merge when both values are mappings and the overlay's value otherwise.
C3_MergeContract ==
    (pc = "merged" /\ changes = 0) =>
        MergedAsClaimed(Deref(heap, result), before.base, before.update)

\* nested mappings merged key by key, a sequence replaced by the overlay's sequence
C3_Witness ==
    /\ pc = "merged"
    /\ changes = 0
    /\ before.base = D("a" :> D("a" :> D("b" :> I(1))) @@ "b" :> L(<<I(1)>>))
    /\ before.update = D("a" :> D("b" :> I(2)) @@ "b" :> L(<<I(2), D("a" :> I(1))>>))
    /\ Deref(heap, result) = D("a" :> D("a" :> D("b" :> I(1)) @@ "b" :> I(2))
                               @@ "b" :> L(<<I(2), D("a" :> I(1))>>))

(***************************************************************************)
(* Properties of generate_adaptive_config.  They are stated on the trees:  *)
(* the caller's snapshot, the six layers in folding order (1 defaults,     *)
(* 2 project type, 3 performance, 4 scale, 5 usage pattern, 6 user) and    *)
(* the returned tree.                                                      *)
(***************************************************************************)
Called == pc = "adaptive" /\ calls >= 1

TreeGet(t, k, dflt) == IF k \in DOMAIN t[2] THEN t[2][k] ELSE dflt
NoTree == D(EmptyItems)

FinalSettings == Deref(heap, returned_config)[2]["cline_settings"][2]
LayerSettings(n) == layers[n][2]["cline_settings"][2]
FinalOr(key, dflt) == IF key \in DOMAIN FinalSettings THEN FinalSettings[key] ELSE dflt
LayerOr(n, key, dflt) ==
    IF key \in DOMAIN LayerSettings(n) THEN LayerSettings(n)[key] ELSE dflt

SnapProjectStructure == TreeGet(Deref(heap, current_config), "project_structure", NoTree)
SnapLanguages == TreeGet(SnapProjectStructure, "languages", L(<<>>))[2]
SnapTotalFiles == TreeGet(SnapProjectStructure, "total_files", I(0))[2]
SnapUsage == TreeGet(Deref(heap, current_config), "usage_patterns", NoTree)
SnapSessions == TreeGet(SnapUsage, "sessions_count", I(0))[2]
SnapUserSettings ==
    TreeGet(TreeGet(Deref(heap, current_config), "vscode_settings", NoTree),
            "cline_settings", NoTree)[2]

\* C1: the layers are folded in the order defaults, project type, performance,
\* scale, usage pattern, user: for a key under cline_settings that layers i < j set
\* and no layer after j sets, the final value is layer j's value when both values
\* are not mappings, and the recursive merge of the two when both are mappings.
C1_LaterLayerWins ==
    Called =>
        \A i \in 1..6, j \in 1..6 :
            \A key \in DOMAIN LayerSettings(i) \cap DOMAIN LayerSettings(j) :
                (i < j /\ \A n \in (j + 1)..6 : key \notin DOMAIN LayerSettings(n)) =>
                    LET vi == LayerSettings(i)[key]
                        vj == LayerSettings(j)[key]
                    IN  /\ key \in DOMAIN FinalSettings
                        /\ (~IsDictTree(vi) /\ ~IsDictTree(vj)) => FinalSettings[key] = vj
                        /\ (IsDictTree(vi) /\ IsDictTree(vj)) =>
                               MergedAsClaimed(FinalSettings[key], vi, vj)

\* contextWindow is set by the defaults, by the low-memory tier and last by the
\* scale layer; codeStyle is a mapping in the defaults and in the project-type layer
C1_Witness ==
    /\ Called
    /\ LayerOr(1, "contextWindow", NoRef) = I(200000)
    /\ LayerOr(3, "contextWindow", NoRef) = I(100000)
    /\ LayerOr(4, "contextWindow", NoRef) = I(250000)
    /\ FinalOr("contextWindow", NoRef) = I(250000)
    /\ "codeStyle" \in DOMAIN LayerSettings(2)
    /\ LayerSettings(2)["codeStyle"] # FinalOr("codeStyle", NoRef)
    /\ LayerSettings(1)["codeStyle"] # FinalOr("codeStyle", NoRef)

\* C5: a value the user has for customInstructions, preferredLanguage or autoApprove
\* is the final value; no other key of the user's settings enters or changes the
\* final tree.
C5_UserOverridesWin ==
    Called =>
        /\ \A key \in DOMAIN SnapUserSettings \cap
                      {"customInstructions", "preferredLanguage", "autoApprove"} :
              /\ key \in DOMAIN FinalSettings
              /\ FinalSettings[key] = SnapUserSettings[key]
        /\ \A key \in DOMAIN SnapUserSettings \
                      {"customInstructions", "preferredLanguage", "autoApprove"} :
              LET setters == {n \in 1..5 : key \in DOMAIN LayerSettings(n)}
              IN  /\ key \notin DOMAIN LayerSettings(6)
                  /\ IF setters = {} THEN key \notin DOMAIN FinalSettings
                     ELSE LET last == CHOOSE n \in setters : \A m \in setters : m <= n
                          IN  IsDictTree(LayerSettings(last)[key])
                              \/ FinalSettings[key] = LayerSettings(last)[key]

\* an experienced user (autoApprove = true in the usage layer) who has autoApprove
\* = false in the existing settings
C5_Witness ==
    /\ Called
    /\ LayerOr(5, "autoApprove", NoRef) = B(TRUE)
    /\ "autoApprove" \in DOMAIN SnapUserSettings
    /\ SnapUserSettings["autoApprove"] = B(FALSE)
    /\ FinalOr("autoApprove", NoRef) = B(FALSE)

\* the snapshot with system_metrics.memory.percent = 85 and nothing else
OnlyMemoryPercent85 ==
    /\ Deref(heap, current_config) = NoTree
    /\ Deref(heap, perf_snapshot) =
           D("system_metrics" :> D("memory" :> D("percent" :> I(85))))

\* C6, as stated: on that snapshot the final tree has contextWindow = 100000 and
\* maxResponseTokens = 4096.
C6_AsStated ==
    (Called /\ OnlyMemoryPercent85) =>
        /\ FinalOr("contextWindow", NoRef) = I(100000)
        /\ FinalOr("maxResponseTokens", NoRef) = I(4096)

\* C6, amended: on that snapshot the performance layer has contextWindow = 100000
\* and maxResponseTokens = 4096 (the low-memory tier); the final tree keeps
\* maxResponseTokens = 4096 and has the contextWindow of the scale layer, 150000.
C6_LowMemoryThenScale ==
    (Called /\ OnlyMemoryPercent85) =>
        /\ LayerOr(3, "contextWindow", NoRef) = I(100000)
        /\ LayerOr(3, "maxResponseTokens", NoRef) = I(4096)
        /\ LayerOr(4, "contextWindow", NoRef) = I(150000)
        /\ FinalOr("contextWindow", NoRef) = I(150000)
        /\ FinalOr("maxResponseTokens", NoRef) = I(4096)

C6_Witness ==
    /\ Called
    /\ OnlyMemoryPercent85
    /\ FinalOr("enableCaching", NoRef) = B(FALSE)
    /\ FinalOr("contextWindow", NoRef) = I(150000)

ScaleTier(total_files) ==
    IF total_files > 100 THEN <<I(50), I(250000)>>
    ELSE IF total_files > 50 THEN <<I(35), I(200000)>>
    ELSE <<I(20), I(150000)>>

\* C7: with at most two languages the final requestLimit and contextWindow are
\* 50 and 250000 over 100 files, 35 and 200000 over 50 and up to 100 files, 20 and
\* 150000 otherwise, whatever the performance tier or a remediation set.
C7_ScaleTierDecides ==
    (Called /\ Len(SnapLanguages) <= 2) =>
        <<FinalOr("requestLimit", NoRef), FinalOr("contextWindow", NoRef)>>
            = ScaleTier(SnapTotalFiles)

\* exactly 100 files is the medium tier, against a low-memory tier that had set
\* contextWindow = 100000
C7_Witness ==
    /\ Called
    /\ Len(SnapLanguages) = 2
    /\ SnapTotalFiles = 100
    /\ LayerOr(3, "contextWindow", NoRef) = I(100000)
    /\ FinalOr("requestLimit", NoRef) = I(35)
    /\ FinalOr("contextWindow", NoRef) = I(200000)

\* C8: with more than two languages the final contextWindow is the scale tier's
\* value plus 50000 and the final maxResponseTokens is 10240, also when the
\* low-memory tier or a remediation had set 4096; with at most two languages the
\* final contextWindow is the scale tier's value.
C8_PolyglotBonus ==
    Called =>
        IF Len(SnapLanguages) > 2
        THEN /\ FinalOr("contextWindow", NoRef)
                    = I(ScaleTier(SnapTotalFiles)[2][2] + 50000)
             /\ FinalOr("maxResponseTokens", NoRef) = I(10240)
        ELSE FinalOr("contextWindow", NoRef) = ScaleTier(SnapTotalFiles)[2]

\* three languages in a medium project whose performance layer had set 4096
C8_Witness ==
    /\ Called
    /\ Len(SnapLanguages) = 3
    /\ SnapTotalFiles = 51
    /\ LayerOr(3, "maxResponseTokens", NoRef) = I(4096)
    /\ FinalOr("contextWindow", NoRef) = I(250000)
    /\ FinalOr("maxResponseTokens", NoRef) = I(10240)

\* C9: the usage layer never applies both the experienced and the novice settings;
\* when the user has no autoApprove, the final autoApprove and experimentalFeatures
\* are true exactly when sessions_count > 100, the final debugMode is true exactly
\* when sessions_count < 10, and from 10 to 100 sessions all three are false.
C9_UsageTiers ==
    Called =>
        /\ ~(/\ LayerOr(5, "autoApprove", NoRef) = B(TRUE)
             /\ LayerOr(5, "debugMode", NoRef) = B(TRUE))
        /\ "autoApprove" \notin DOMAIN SnapUserSettings =>
              /\ (/\ FinalOr("autoApprove", NoRef) = B(TRUE)
                  /\ FinalOr("experimentalFeatures", NoRef) = B(TRUE))
                     <=> SnapSessions > 100
              /\ FinalOr("debugMode", NoRef) = B(TRUE) <=> SnapSessions < 10
              /\ (SnapSessions >= 10 /\ SnapSessions <= 100) =>
                    /\ FinalOr("autoApprove", NoRef) = B(FALSE)
                    /\ FinalOr("experimentalFeatures", NoRef) = B(FALSE)
                    /\ FinalOr("debugMode", NoRef) = B(FALSE)

\* exactly 10 sessions: neither tier, with user settings that lack autoApprove
C9_Witness ==
    /\ Called
    /\ SnapSessions = 10
    /\ "customInstructions" \in DOMAIN SnapUserSettings
    /\ "autoApprove" \notin DOMAIN SnapUserSettings
    /\ "autoApprove" \notin DOMAIN LayerSettings(5)
    /\ FinalOr("autoApprove", NoRef) = B(FALSE)
    /\ FinalOr("debugMode", NoRef) = B(FALSE)

\* C4: applying the same overlay to the result of a merge changes nothing, and a
\* second generate_adaptive_config on the same instance with the same snapshot
\* returns a tree equal to the first (the +50000 for many languages is added once).
C4_Idempotent ==
    /\ (pc = "again" /\ changes = 0) => Deref(heap, result) = before.result
    /\ (pc = "adaptive" /\ calls >= 2) => Deref(heap, returned_config) = previous

\* the second call on a snapshot with three languages in a large project
C4_Witness ==
    /\ pc = "adaptive"
    /\ calls = 2
    /\ Len(SnapLanguages) = 3
    /\ SnapTotalFiles = 101
    /\ previous # NoRef
    /\ FinalOr("contextWindow", NoRef) = I(300000)

(***************************************************************************)
(* Properties of _remove_duplicates.                                       *)
(***************************************************************************)
DedupKey(text) == Strip(Lower(text))

\* the positions of rule_list that hold the first rule of their key
FirstOccurrences(rule_list) ==
    {i \in 1..Len(rule_list) :
        \A j \in 1..(i - 1) : DedupKey(rule_list[j]) # DedupKey(rule_list[i])}

\* C10: _remove_duplicates returns the first occurrences under the key
\* lower().strip(), with their original text and in their order, so that no two
\* survivors have the same key; applied to its own result it returns that result.
C10_FirstOccurrencesKept ==
    (pc \in {"unique", "unique_again"}) =>
        /\ Len(first_unique) = Cardinality(FirstOccurrences(rules))
        /\ \A n \in 1..Len(first_unique) :
              \E i \in FirstOccurrences(rules) :
                  /\ Cardinality({j \in FirstOccurrences(rules) : j <= i}) = n
                  /\ first_unique[n] = rules[i]
        /\ \A m \in 1..Len(first_unique), n \in 1..Len(first_unique) :
              DedupKey(first_unique[m]) = DedupKey(first_unique[n]) => m = n
        /\ pc = "unique_again" => unique_rules = first_unique

\* "Use", " use " and "u s": the second has the key of the first and is dropped,
\* the first keeps its capital letter, and the second call changes nothing
C10_Witness ==
    /\ pc = "unique_again"
    /\ rules = << <<"U", "s", "e">>, <<" ", "u", "s", "e", " ">>, <<"u", " ", "s">> >>
    /\ unique_rules = << <<"U", "s", "e">>, <<"u", " ", "s">> >>

(***************************************************************************)
(* Properties of the performance layer (layer 3).                          *)
(***************************************************************************)
SnapSystemMetrics == TreeGet(Deref(heap, perf_snapshot), "system_metrics", NoTree)
SnapIssues == TreeGet(Deref(heap, perf_snapshot), "performance_issues", L(<<>>))[2]
SnapMemory == TreeGet(SnapSystemMetrics, "memory", NoTree)
SnapMemoryPercent == TreeGet(SnapMemory, "percent", I(0))[2]
SnapMemoryTotal == TreeGet(SnapMemory, "total", I(0))[2]
SnapCpuCount == TreeGet(TreeGet(SnapSystemMetrics, "cpu", NoTree), "count", I(1))[2]
HasIssue(type, severity) ==
    \E i \in 1..Len(SnapIssues) :
        /\ SnapIssues[i][2]["type"] = S(type)
        /\ SnapIssues[i][2]["severity"] = S(severity)

\* C19, as stated: with non-empty system_metrics the two memory conditions are
\* evaluated independently.  The low-memory tier is applied iff percent > 80 or
\* total < 4 GiB (it alone sets maxCacheSize = 50 and, among the tiers,
\* memoryOptimization); the high-memory tier is applied iff total > 16 GiB, after
\* the low one, so its contextWindow = 300000 and maxCacheSize = 200 are in the
\* layer; when neither fires the layer has no memory-tier key.
C19_AsStated ==
    (Called /\ SnapSystemMetrics # NoTree) =>
        LET low == SnapMemoryPercent > 80 \/ SnapMemoryTotal < 4 * 1024
            high == SnapMemoryTotal > 16 * 1024
        IN  /\ low => LayerOr(3, "memoryOptimization", NoRef) = B(TRUE)
            /\ (low /\ ~high) => /\ LayerOr(3, "contextWindow", NoRef) = I(100000)
                                 /\ LayerOr(3, "maxCacheSize", NoRef) = I(50)
            /\ high => /\ LayerOr(3, "contextWindow", NoRef) = I(300000)
                       /\ LayerOr(3, "maxCacheSize", NoRef) = I(200)
            /\ (~low /\ ~high) => /\ "contextWindow" \notin DOMAIN LayerSettings(3)
                                  /\ "maxCacheSize" \notin DOMAIN LayerSettings(3)

\* C20: with non-empty system_metrics, an issue of type cpu and severity high
\* leaves parallelProcessing = false in the performance layer and in the final
\* tree, and an issue of type memory and severity high leaves memoryOptimization
\* = true in both and enableCaching = false in the performance layer, whatever
\* the memory and cpu tiers had set.
C20_RemediationWins ==
    (Called /\ SnapSystemMetrics # NoTree) =>
        /\ HasIssue("cpu", "high") =>
              /\ LayerOr(3, "parallelProcessing", NoRef) = B(FALSE)
              /\ FinalOr("parallelProcessing", NoRef) = B(FALSE)
        /\ HasIssue("memory", "high") =>
              /\ LayerOr(3, "memoryOptimization", NoRef) = B(TRUE)
              /\ FinalOr("memoryOptimization", NoRef) = B(TRUE)
              /\ LayerOr(3, "enableCaching", NoRef) = B(FALSE)

\* the high-memory and the high-cpu tier both fired (maxCacheSize = 200,
\* backgroundProcessing = true) and a cpu issue of high severity switched
\* parallelProcessing off
C20_Witness ==
    /\ Called
    /\ SnapSystemMetrics # NoTree
    /\ HasIssue("cpu", "high")
    /\ SnapMemoryTotal > 16 * 1024
    /\ SnapCpuCount > 8
    /\ LayerOr(3, "maxCacheSize", NoRef) = I(200)
    /\ LayerOr(3, "backgroundProcessing", NoRef) = B(TRUE)
    /\ LayerOr(3, "parallelProcessing", NoRef) = B(FALSE)
    /\ FinalOr("parallelProcessing", NoRef) = B(FALSE)

(***************************************************************************)
(* Properties of generate_improved_rules.                                  *)
(***************************************************************************)
\* generate_improved_rules has run as far as _prioritize_rules
Prioritised == pc \in {"generated", "raised"}

PositionIn(rule_list, rule) == CHOOSE k \in 1..Len(rule_list) : rule_list[k] = rule

\* C11: _prioritize_rules returns a permutation of its input, in non-decreasing
\* priority (1 security, 2 testing, 3 performance, 4 documentation/style, 5
\* general), in which two rules of equal priority keep their input order.
C11_StablePriorityOrder ==
    Prioritised =>
        \E keys_in \in {SortKeys(deduplicated)} :
        \E keys_out \in {SortKeys(selected_rules)} :
            /\ Len(selected_rules) = Len(deduplicated)
            /\ \A i \in 1..Len(deduplicated) :
                  \E k \in 1..Len(selected_rules) : selected_rules[k] = deduplicated[i]
            /\ \A k \in 1..(Len(selected_rules) - 1) : keys_out[k] <= keys_out[k + 1]
            /\ \A i, j \in 1..Len(deduplicated) :
                  (i < j /\ keys_in[i] = keys_in[j]) =>
                      PositionIn(selected_rules, deduplicated[i])
                          < PositionIn(selected_rules, deduplicated[j])

\* the input holds, in this order, a general, a security and a performance rule, and
\* several rules of one priority; the sort moved rules
C11_Witness ==
    /\ pc = "generated"
    /\ selected_rules # deduplicated
    /\ \A i, j \in 1..Len(deduplicated) : i # j => deduplicated[i] # deduplicated[j]
    /\ \E keys_in \in {SortKeys(deduplicated)} :
          /\ \E i, j, k \in 1..Len(deduplicated) :
                i < j /\ j < k /\ keys_in[i] = 5 /\ keys_in[j] = 1 /\ keys_in[k] = 3
          /\ \E i, j \in 1..Len(deduplicated) : i < j /\ keys_in[i] = keys_in[j]
          /\ rule_priority(selected_rules[1]) = 1
          /\ rule_priority(selected_rules[Len(selected_rules)]) = 5

\* the rendered document read back: its "## " headings, each with the rules of the
\* "- " lines below it
RECURSIVE ReadSections(_)
ReadSections(st) ==
    IF st.i > Len(st.lines) THEN st.sections
    ELSE LET line == st.lines[st.i]
             n == Len(st.sections)
         IN  ReadSections([lines |-> st.lines, i |-> st.i + 1,
                 sections |->
                     IF StartsWith(line, <<"#", "#", " ">>)
                     THEN Append(st.sections,
                                 [name |-> SubSeq(line, 4, Len(line)), rules |-> <<>>])
                     ELSE IF StartsWith(line, <<"-", " ">>) /\ n > 0
                     THEN [st.sections EXCEPT ![n].rules =
                               Append(@, SubSeq(line, 3, Len(line)))]
                     ELSE st.sections])

\* the lines of a text: what stands between two neighbouring line ends
LineEnds(document) ==
    {0, Len(document) + 1} \cup {i \in 1..Len(document) : document[i] = "\n"}
LinesBetween(document, ends) ==
    [k \in 1..(Cardinality(ends) - 1) |->
        LET from == CHOOSE e \in ends : Cardinality({x \in ends : x < e}) = k - 1
            to == CHOOSE e \in ends : Cardinality({x \in ends : x < e}) = k
        IN  SubSeq(document, from + 1, to - 1)]
DocumentLines(document) == LinesBetween(document, LineEnds(document))

DocumentSections(document) ==
    ReadSections([lines |-> DocumentLines(document), i |-> 1, sections |-> <<>>])

RECURSIVE Flatten(_)
Flatten(seqs) == IF seqs = <<>> THEN <<>> ELSE Head(seqs) \o Flatten(Tail(seqs))

\* the rules of the document from top to bottom
RulesOfSections(sections) == Flatten([k \in 1..Len(sections) |-> sections[k].rules])

\* the headings a rule of each priority belongs under: 1 Безопасность, 2 Тестирование,
\* 3 Производительность, 4 Документация or Качество кода, 5 Общие правила
HeadingsOfPriority ==
    << { <<"~B", "~e", "~z", "~o", "~p", "~a", "~s", "~n", "~o", "~s", "~t", "~soft">> }, { <<"~T", "~e", "~s", "~t", "~i", "~r", "~o", "~v", "~a", "~n", "~i", "~e">> }, { <<"~P", "~r", "~o", "~i", "~z", "~v", "~o", "~d", "~i", "~t", "~e", "~l", "~soft", "~n", "~o", "~s", "~t", "~soft">> },
       { <<"~D", "~o", "~k", "~u", "~m", "~e", "~n", "~t", "~a", "~c", "~i", "~ya">>, <<"~K", "~a", "~ch", "~e", "~s", "~t", "~v", "~o", " ", "~k", "~o", "~d", "~a">> }, { <<"~O", "~b", "~sch", "~i", "~e", " ", "~p", "~r", "~a", "~v", "~i", "~l", "~a">> } >>

PriorityOfHeading(name) == CHOOSE p \in 1..5 : name \in HeadingsOfPriority[p]

\* C13, as stated: a rule is grouped under the category of the priority that
\* _prioritize_rules gave it, the rules of the document read from top to bottom are
\* the priority-sorted sequence (security, testing, performance,
\* documentation/style, general), and a category without a rule has no heading.
C13_AsStated ==
    pc = "generated" =>
        \E sections \in {DocumentSections(rules_content)} :
            /\ \A s \in 1..Len(sections) :
                  /\ sections[s].rules # <<>>
                  /\ \A k \in 1..Len(sections[s].rules) :
                        sections[s].name
                            \in HeadingsOfPriority[rule_priority(sections[s].rules[k])]
            /\ \A s \in 1..(Len(sections) - 1) :
                  PriorityOfHeading(sections[s].name)
                      <= PriorityOfHeading(sections[s + 1].name)
            /\ RulesOfSections(sections) = selected_rules

\* C12, as stated: the rules under any one heading of the returned document stand
\* in the relative order in which they entered the deduplicated candidate list.
C12_AsStated ==
    pc = "generated" =>
        \E sections \in {DocumentSections(rules_content)} :
            \A s \in 1..Len(sections) :
                \A a, b \in 1..Len(sections[s].rules) :
                    a < b => PositionIn(deduplicated, sections[s].rules[a])
                                 < PositionIn(deduplicated, sections[s].rules[b])

\* the existing rules text, when current_rules.exists and the content is not empty
SnapCurrentRules == GetOr(rules_config, "current_rules", EmptyDict)
HasRulesText ==
    /\ GetOr(SnapCurrentRules, "exists", FALSE)
    /\ GetOr(SnapCurrentRules, "content", <<>>) # <<>>
TrimmedLines(content) ==
    [k \in 1..Len(DocumentLines(content)) |-> Strip(DocumentLines(content)[k])]
EqualsCatalogRule(line) ==
    \E catalog_rule \in all_base_rules : Lower(Strip(line)) = Lower(Strip(catalog_rule))
IsUserLine(line) == line # <<>> /\ line[1] # "#" /\ ~EqualsCatalogRule(line)

\* C14: with current_rules.exists and a non-empty content, the custom candidates are
\* the trimmed lines that are not blank, do not start with '#' and are not equal,
\* letter case aside, to the trimmed text of a rule of the three catalogs; they
\* follow all catalog and performance-driven candidates, in the order of their lines.
C14_CustomRulesLast ==
    (Prioritised /\ HasRulesText) =>
        candidates = _select_base_rules(rules_config, rules_performance)
                     \o _select_language_rules(rules_config)
                     \o _select_framework_rules(rules_config)
                     \o _generate_adaptive_rules(rules_performance)
                     \o SelectSeq(TrimmedLines(SnapCurrentRules["content"]), IsUserLine)

\* a rules text of two lines, a catalog rule in other letters and a rule of the user:
\* only the second is a candidate, the last one
C14_Witness ==
    /\ pc = "generated"
    /\ HasRulesText
    /\ \E lines \in {TrimmedLines(SnapCurrentRules["content"])} :
          /\ Len(lines) = 2
          /\ lines[1] \notin all_base_rules
          /\ EqualsCatalogRule(lines[1])
          /\ \A k \in 1..Len(candidates) : candidates[k] # lines[1]
          /\ lines[2] = <<"U", "s", "e", " ", "O", "A", "u", "t", "h", " ", "t", "o", "k", "e", "n", "s">>
          /\ candidates[Len(candidates)] = lines[2]
          /\ Len(candidates) > 1

\* C15, as stated: on a snapshot with any of its sections absent,
\* generate_improved_rules returns a document; the call never ends with an exception.
C15_AsStated == pc # "raised" /\ raised = "none"

(***************************************************************************)
(* Properties of optimize_workflows.                                       *)
(***************************************************************************)
WfIssues == GetOr(wf_performance, "performance_issues", <<>>)

HasPerformanceWorkflow == "performance_optimization" \in DOMAIN optimized_workflows

\* the position of a line of the text
PositionOfLine(content, line) ==
    CHOOSE k \in 1..Len(content) : content[k] = line

\* the lines of the text between the heading of the steps and the heading of the notes
StepsOf(content) ==
    LET from == PositionOfLine(content, "## steps:")
        to == PositionOfLine(content, "## notes:")
    IN  SelectSeq(SubSeq(content, from + 1, to - 1), LAMBDA w : w # "\n")

RemediationLine(issue) == "- " \o issue["type"]

RemediationLines(issues) ==
    LET counted == SelectSeq(issues, LAMBDA issue : issue["type"] \in {"memory", "cpu"})
    IN  [k \in 1..Len(counted) |-> RemediationLine(counted[k])]

\* C17: the result of optimize_workflows has the workflow performance_optimization
\* exactly when performance_issues is not empty, whatever current_workflows holds.
C17_AsStated ==
    pc = "optimized" => (HasPerformanceWorkflow <=> WfIssues # <<>>)

\* C18: with performance issues, the steps of the performance workflow are the ten
\* generic steps and then one line for each memory issue and each cpu issue, in the
\* order of the issues, repeated types repeated and other types without a line; this
\* holds at each call, so no line of an earlier call is in the list of a later one.
C18_GenericThenRemediation ==
    (pc = "optimized" /\ WfIssues # <<>>) =>
        /\ HasPerformanceWorkflow
        /\ StepsOf(optimized_workflows["performance_optimization"])
               = perf_workflow.steps \o RemediationLines(WfIssues)
        /\ Len(perf_workflow.steps) = 10

\* a second call, after a call, whose issues repeat a type between another one
C18_Witness ==
    /\ pc = "optimized"
    /\ optimizations = 2
    /\ Len(WfIssues) = 3
    /\ HasPerformanceWorkflow
    /\ Len(StepsOf(optimized_workflows["performance_optimization"])) = 13

(***************************************************************************)
(* Properties of ClineAutoUpdater.run.                                     *)
(***************************************************************************)
Running ==
    pc \in {"run", "run_analyzed", "run_synthesized", "run_applied", "run_done",
            "run_raised", "run_exit"}

\* settings.json holds a text that is no JSON, or .clinerules cannot be read
MalformedConfiguration ==
    \/ run_files.clinerules.state = "unreadable"
    \/ /\ run_files.settings_json.state = "text"
       /\ run_files.settings_json.json[1] = "invalid"

\* C16: with a settings.json that cannot be parsed or a .clinerules that cannot be
\* read, run never leaves by sys.exit(1).
C16_AsStated ==
    (Running /\ MalformedConfiguration) =>
        exit_status # "1"

(***************************************************************************)
(* Properties of the performance layer without system metrics, and of the  *)
(* project-type layer (layer 2).                                           *)
(***************************************************************************)
\* C21, as stated: whether or not system_metrics is there, an issue of type memory
\* and severity high leaves memoryOptimization = true and enableCaching = false in
\* the performance layer, an issue of type cpu and severity high leaves
\* parallelProcessing = false and maxResponseTokens = 4096 in it, and without
\* system metrics and without such an issue the layer sets nothing.
C21_AsStated ==
    Called =>
        /\ HasIssue("memory", "high") =>
              /\ LayerOr(3, "memoryOptimization", NoRef) = B(TRUE)
              /\ LayerOr(3, "enableCaching", NoRef) = B(FALSE)
        /\ HasIssue("cpu", "high") =>
              /\ LayerOr(3, "parallelProcessing", NoRef) = B(FALSE)
              /\ LayerOr(3, "maxResponseTokens", NoRef) = I(4096)
        /\ (SnapSystemMetrics = NoTree /\ ~HasIssue("memory", "high")
            /\ ~HasIssue("cpu", "high")) => LayerSettings(3) = EmptyItems

LanguageCatalog == project_specific_settings[2]
SnapProjectType == TreeGet(SnapProjectStructure, "project_type", S("unknown"))[2]
SnapFrameworks == TreeGet(SnapProjectStructure, "frameworks", L(<<>>))[2]
SnapIsWeb ==
    \/ \E i \in 1..Len(SnapLanguages) : SnapLanguages[i] \in web_indicators
    \/ \E i \in 1..Len(SnapFrameworks) : SnapFrameworks[i] \in web_frameworks

\* the three sub-layers in the order of the claim; a sub-layer that is not applied
\* is empty
SubLayerOf(name) ==
    IF name \in DOMAIN LanguageCatalog THEN LanguageCatalog[name][2] ELSE EmptyItems
PrimaryLanguageSubLayer ==
    IF SnapLanguages # <<>> THEN SubLayerOf(SnapLanguages[1][2]) ELSE EmptyItems
ProjectTypeSubLayer == SubLayerOf(SnapProjectType)
WebSubLayer == IF SnapIsWeb THEN SubLayerOf("web") ELSE EmptyItems

\* C22, as stated: the project-type layer combines the language, the project-type
\* and the web sub-layer as the merge engine would: an entry of a mapping of the
\* language sub-layer that no later sub-layer sets is in the layer and in the final
\* tree, and an entry that the project-type sub-layer sets and the web sub-layer
\* does not has the project-type sub-layer's value in the layer.
C22_AsStated ==
    Called =>
        /\ \A key \in DOMAIN PrimaryLanguageSubLayer :
              \A entry \in DOMAIN PrimaryLanguageSubLayer[key][2] :
                  /\ key \in DOMAIN LayerSettings(2)
                  /\ entry \in DOMAIN LayerSettings(2)[key][2]
                  /\ key \in DOMAIN FinalSettings
                  /\ entry \in DOMAIN FinalSettings[key][2]
        /\ \A key \in DOMAIN ProjectTypeSubLayer \ DOMAIN WebSubLayer :
              \A entry \in DOMAIN ProjectTypeSubLayer[key][2] :
                  /\ key \in DOMAIN LayerSettings(2)
                  /\ entry \in DOMAIN LayerSettings(2)[key][2]
                  /\ LayerSettings(2)[key][2][entry] = ProjectTypeSubLayer[key][2][entry]

\* the languages of the snapshot that have an entry in the catalog, by position
MatchingLanguages ==
    {i \in 1..Len(SnapLanguages) : SnapLanguages[i][2] \in DOMAIN LanguageCatalog}
FirstMatchingSubLayer ==
    IF MatchingLanguages = {} THEN EmptyItems
    ELSE SubLayerOf(SnapLanguages[CHOOSE i \in MatchingLanguages :
                                      \A j \in MatchingLanguages : i <= j][2])

\* C23, as stated: the language sub-layer is that of the first language of
\* project_structure.languages with an entry in the catalog: each of its keys is in
\* the project-type layer, and when no language has an entry the layer holds only
\* keys of the project-type and the web sub-layer.
C23_AsStated ==
    Called =>
        /\ DOMAIN FirstMatchingSubLayer \subseteq DOMAIN LayerSettings(2)
        /\ \A key \in DOMAIN FirstMatchingSubLayer
                      \ (DOMAIN ProjectTypeSubLayer \cup DOMAIN WebSubLayer) :
              LayerSettings(2)[key] = FirstMatchingSubLayer[key]
        /\ MatchingLanguages = {} =>
              DOMAIN LayerSettings(2)
                  \subseteq DOMAIN ProjectTypeSubLayer \cup DOMAIN WebSubLayer

(***************************************************************************)
(* Properties of the derived editor settings and of the performance        *)
(* section of the returned tree.                                           *)
(***************************************************************************)
FinalTop == Deref(heap, returned_config)[2]
FinalPerformance == FinalSettings["performance"]
DefaultPerformance == default_settings[2]["cline_settings"][2]["performance"]

C29_PerformanceSectionUntouched ==
    Called =>
        /\ FinalPerformance = DefaultPerformance
        /\ FinalPerformance = D("enableCaching" :> B(TRUE) @@ "maxCacheSize" :> I(100) @@
                                "parallelProcessing" :> B(FALSE) @@
                                "memoryOptimization" :> B(FALSE))
        /\ \A n \in 2..6 : "performance" \notin DOMAIN LayerSettings(n)
        /\ "files.watcherExclude" \notin DOMAIN FinalTop

\* the low-memory tier applied, and a memory issue of high severity was remedied
C29_Witness ==
    /\ Called
    /\ SnapSystemMetrics # NoTree
    /\ SnapMemoryPercent > 80
    /\ HasIssue("memory", "high")
    /\ LayerOr(3, "maxCacheSize", NoRef) = I(50)
    /\ FinalOr("memoryOptimization", NoRef) = B(TRUE)
    /\ FinalPerformance = DefaultPerformance
    /\ "files.watcherExclude" \notin DOMAIN FinalTop

(***************************************************************************)
(* Properties of interleaved calls on shared instances.                    *)
(***************************************************************************)
Interleaving == pc = "concurrent"

\* the catalogs of the shared AdaptiveSettings are what the constructor built
CatalogsIntact ==
    /\ Deref(heap, NewAdaptiveSettings.v.default_settings) = default_settings
    /\ Deref(heap, NewAdaptiveSettings.v.project_specific_settings)
          = project_specific_settings
    /\ Deref(heap, NewAdaptiveSettings.v.performance_settings) = performance_settings

\* the caller's snapshot is what the caller brought
SnapshotIntact(t) ==
    IF t.kind = "adaptive"
    THEN /\ Deref(heap, t.config) = t.given[1]
         /\ Deref(heap, t.performance) = t.given[2]
    ELSE /\ t.config = t.given[1]
         /\ t.performance = t.given[2]

\* what the call returned is what it returns when made alone, the timestamps
\* it embeds being any readings of the clock
AsAlone(t) ==
    CASE t.kind = "adaptive" -> Deref(heap, t.result) = Alone(t, "earlier")
      [] t.kind = "rules" -> \E c \in Instants : t.result = Alone(t, c)
      [] t.kind = "workflows" ->
           /\ DOMAIN t.result = DOMAIN Alone(t, "earlier")
           /\ \A name \in DOMAIN t.result :
                 \E c \in Instants : t.result[name] = Alone(t, c)[name]

Booting == pc = "boot"
Interpreters == 1..Len(interpreters)
BootstrapOver(i) == interpreters[i].at = "done"
\* _start_background_thread has been called in interpreter i
Started(i) == interpreters[i].updater # "none"

RECURSIVE Ancestors(_)
Ancestors(i) ==
    IF interpreters[i].parent = 0 THEN {}
    ELSE {interpreters[i].parent} \cup Ancestors(interpreters[i].parent)

\* the checks after the first are made with the sentinel set
SentinelSetFirst ==
    \A i \in Interpreters :
        interpreters[i].at \in {"disable_check", "interactive_check", "start"}
            => EnvironGet(interpreters[i].environ, _SENTINEL_ENV)

AtMostOneUpdaterPerChain ==
    \A i \in Interpreters :
        Cardinality({j \in Ancestors(i) \cup {i} : Started(j)}) <= 1

C27_FailureConfined ==
    Booting => \A i \in Interpreters : interpreters[i].main # "terminated"

\* run() has ended in sys.exit(1) in the thread cline-autoupdater of a nested
\* chain's outermost interpreter, whose main thread is still running
C27_Witness ==
    /\ Booting
    /\ interpreters[1].updater = "exited"
    /\ interpreters[1].runs_in = "cline-autoupdater"
    /\ interpreters[1].main = "running"

(***************************************************************************)
(* Properties of successive runs.                                          *)
(***************************************************************************)
\* the rule lines of a document: its lines that are neither blank nor comments
RuleLines(content) ==
    LET parsed == _parse_rules(content)
    IN  {parsed[i] : i \in 1..Len(parsed)}

\* a run has generated a document from a snapshot whose .clinerules the run
\* before it had generated
Regenerated == pc = "regenerated" /\ regenerations >= 1

\* C28, as stated: when the generated document is fed back as
\* current_rules.content of an otherwise identical snapshot, the next document
\* has the same rule lines and no more of them, and no line of the document fed
\* back is among the rules of the next run
C28_AsStated ==
    Regenerated =>
        /\ RuleLines(rules_content) = RuleLines(rules_config["current_rules"].content)
        /\ Len(_parse_rules(rules_content))
              <= Len(_parse_rules(rules_config["current_rules"].content))
        /\ \A i \in 1..Len(selected_rules) :
              selected_rules[i] \notin RuleLines(rules_config["current_rules"].content)

(***************************************************************************)
(* Properties of settings.json between two runs.                           *)
(***************************************************************************)
\* the key of settings.json under which update_vscode_settings writes a setting
FileKey(name) == <<"c", "l", "i", "n", "e", ".">> \o Letters(name)
StoredSettings == settings_file.json[2]

\* C30, as stated: a value of customInstructions, preferredLanguage or autoApprove
\* that settings.json holds under 'cline.<name>' when the next run reads it is in
\* the layer _preserve_user_settings returns and is the value of that key in the
\* final tree of that run
C30_AsStated ==
    pc = "settings_generated" =>
        \A i \in 1..Len(preserve_keys) :
            FileKey(preserve_keys[i]) \in DOMAIN StoredSettings =>
                /\ preserve_keys[i] \in DOMAIN LayerSettings(6)
                /\ FinalSettings[preserve_keys[i]] = StoredSettings[FileKey(preserve_keys[i])]

====
